---- MODULE Spec2Model ----
(***************************************************************************)
(* Model of blueprint2gcode.py: the conversion pipeline of                 *)
(* Blueprint2GCode.convert (scale_to_a4, join_nearby_endpoints,            *)
(* optimize_path, generate_gcode) and main.                                *)
(*                                                                         *)
(* A point is a pair <<x, y>> of integers; a polyline is a sequence of     *)
(* points.  Coordinates are exact rationals kept as integer numerators     *)
(* over the common denominator den (den = 1: whole millimetres / pixels).  *)
(* Lengths, tolerances and the margin are brought to the same unit by      *)
(* multiplying with den, so every comparison of the code is decided        *)
(* exactly.                                                                *)
(***************************************************************************)
EXTENDS Integers, Sequences, FiniteSets, TLC

VARIABLES
    pc,                 \* position of the run inside main / convert
    cfg,                \* the converter's configuration (self.* set in __init__)
    input_exists,       \* Path(args.input).exists()
    img_shape,          \* <<img_height, img_width>> from load_and_preprocess_image
    detected,           \* what detect_lines returns for the image (tagged lines)
    lines,              \* the local `lines` of convert / argument of each stage
    den,                \* common denominator of the coordinates in `lines`
    pixels_to_mm_scale, \* self.pixels_to_mm_scale, a rational <<num, den>>
    scale,              \* the local `scale` of scale_to_a4, a rational <<num, den>>
    need_rotation,      \* the local `need_rotation` of scale_to_a4
    use_portrait,       \* the local `use_portrait` of scale_to_a4
    target,             \* <<target_width, target_height>> of scale_to_a4
    join_arg,           \* the argument join_nearby_endpoints was called with
    path_arg,           \* the argument optimize_path was called with
    regular_lines,      \* join_nearby_endpoints: local regular_lines
    solid_lines,        \* join_nearby_endpoints: local solid_lines
    joined,             \* join_nearby_endpoints: local joined
    iteration,          \* join_nearby_endpoints: local iteration
    current_pos,        \* optimize_path: local current_pos
    ordered_lines,      \* optimize_path: local ordered_lines
    remaining,          \* optimize_path: local remaining (list of indices)
    gcode,              \* generate_gcode: the list of program lines written
    total_draw_dist,    \* generate_gcode: local total_draw_dist
    total_travel_dist,  \* generate_gcode: local total_travel_dist
    exit_status,        \* value returned by main (-1 while running)
    contours,           \* detect_solid_areas: measures of the traced contours
    hierarchy,          \* detect_solid_areas: <<next, prev, first_child, parent>>
    ci,                 \* detect_solid_areas: the loop index i
    solid_areas,        \* detect_solid_areas: indices appended to solid_areas
    parent_indices,     \* detect_solid_areas: local parent_indices
    rejected_outline_parents, \* detect_solid_areas: local of that name
    solidity,           \* detect_solid_areas: local solidity, <<num, den>>
    compactness,        \* detect_solid_areas: local compactness, <<num, den>>
    thickness,          \* detect_solid_areas: local thickness, <<num, den>>
    fill_ratio,         \* detect_solid_areas: local fill_ratio, <<num, den>>
    hatch_region,       \* generate_hatch_lines: the contour and its holes, drawn
    mask,               \* generate_hatch_lines: local mask (the set pixels)
    all_offsets,        \* generate_hatch_lines: local all_offsets, times ten
    hatch_i,            \* generate_hatch_lines: turns made of the running loop
    line_start,         \* generate_hatch_lines: local line_start, in fiftieths
    line_end,           \* generate_hatch_lines: local line_end, in fiftieths
    hatch_lines,        \* generate_hatch_lines: local hatch_lines
    binary_img,         \* detect_lines: the set pixels of binary_img
    area_regions,       \* detect_lines: solid_areas, each contour drawn filled
    mask_for_lines,     \* detect_lines: local mask_for_lines (the set pixels)
    binary_for_lines,   \* detect_lines: local binary_for_lines
    hatch_pass,         \* detect_lines: the hatching loop the run is in, 0 none
    area_idx,           \* detect_lines: regions hatched in the running loop
    found_lines,        \* detect_lines: local solid_lines
    pass1_count,        \* detect_lines: local pass1_count
    original_angle      \* detect_lines: local original_angle (-1 unset)

vars == <<pc, cfg, input_exists, img_shape, detected, lines, den,
          pixels_to_mm_scale, scale, need_rotation, use_portrait, target,
          join_arg, path_arg,
          regular_lines, solid_lines, joined, iteration,
          current_pos, ordered_lines, remaining,
          gcode, total_draw_dist, total_travel_dist, exit_status,
          contours, hierarchy, ci, solid_areas, parent_indices,
          rejected_outline_parents, solidity, compactness, thickness,
          fill_ratio, hatch_region, mask, all_offsets, hatch_i,
          line_start, line_end, hatch_lines,
          binary_img, area_regions, mask_for_lines, binary_for_lines,
          hatch_pass, area_idx, found_lines, pass1_count, original_angle>>

joinVars == <<join_arg, regular_lines, solid_lines, joined, iteration>>
pathVars == <<path_arg, current_pos, ordered_lines, remaining>>
gcodeVars == <<gcode, total_draw_dist, total_travel_dist>>
scaleVars == <<pixels_to_mm_scale, scale, need_rotation, use_portrait, target>>
solidVars == <<contours, hierarchy, ci, solid_areas, parent_indices,
               rejected_outline_parents, solidity, compactness, thickness,
               fill_ratio>>
hatchVars == <<hatch_region, mask, all_offsets, hatch_i,
               line_start, line_end, hatch_lines>>
detectVars == <<solidVars, hatchVars>>
linesVars == <<binary_img, area_regions, mask_for_lines, binary_for_lines,
               hatch_pass, area_idx, found_lines, pass1_count, original_angle>>

-----------------------------------------------------------------------------
(* Bounds of the model and constants of the program *)

\* largest number of polylines handed to a stage
MaxLines == 3

\* `iteration < 100`: the cap of the joiner's while loop
MaxJoinIterations == 100

\* argparse defaults of --feed-rate and --travel-rate
DefaultFeedRate == 1000
DefaultTravelRate == 3000

-----------------------------------------------------------------------------
(* Arithmetic helpers *)

Abs(x) == IF x < 0 THEN -x ELSE x

Min(a, b) == IF a < b THEN a ELSE b

RECURSIVE SqrtIter(_, _)
SqrtIter(n, x) ==
    LET y == (x + n \div x) \div 2
    IN  IF y >= x THEN x ELSE SqrtIter(n, y)

\* floor of the square root
ISqrt(n) == IF n <= 0 THEN 0 ELSE SqrtIter(n, n)

\* squared Euclidean distance: decides every `norm(..) < bound` exactly
Norm2(p, q) == (p[1] - q[1]) * (p[1] - q[1]) + (p[2] - q[2]) * (p[2] - q[2])

\* np.linalg.norm(np.array(p) - np.array(q)), rounded down to the length unit
Norm(p, q) == ISqrt(Norm2(p, q))

\* line[::-1]
Reverse(s) == [i \in 1..Len(s) |-> s[Len(s) + 1 - i]]

RECURSIVE SumSeq(_)
SumSeq(s) == IF s = <<>> THEN 0 ELSE Head(s) + SumSeq(Tail(s))

\* the least / greatest member of S, -1 when there is none
LeastOf(S) == IF S = {} THEN -1 ELSE CHOOSE m \in S : \A k \in S : m <= k
GreatestOf(S) == IF S = {} THEN -1 ELSE CHOOSE m \in S : \A k \in S : m >= k

-----------------------------------------------------------------------------
(* join_nearby_endpoints *)

\* _line_length: the sum of the distances between consecutive vertices
LineLength(line) ==
    SumSeq([i \in 1..(Len(line) - 1) |-> Norm(line[i + 1], line[i])])

\* the four endpoint distances compared with self.join_tolerance (tol, in
\* the unit of the coordinates)
EndStartClose(l1, l2, tol) == Norm2(l1[Len(l1)], l2[1]) < tol * tol
EndEndClose(l1, l2, tol) == Norm2(l1[Len(l1)], l2[Len(l2)]) < tol * tol
\* the third distance taken to the wrong endpoint of line2
StartStartCloseWrongEnd(l1, l2, tol) == Norm2(l1[1], l2[Len(l2)]) < tol * tol
StartStartClose(l1, l2, tol) == Norm2(l1[1], l2[1]) < tol * tol
StartEndClose(l1, l2, tol) == Norm2(l1[1], l2[Len(l2)]) < tol * tol

\* the chain without its last branch
AnyCloseNoStartEnd(l1, l2, tol) ==
    \/ EndStartClose(l1, l2, tol)
    \/ EndEndClose(l1, l2, tol)
    \/ StartStartClose(l1, l2, tol)

AnyClose(l1, l2, tol) ==
    \/ EndStartClose(l1, l2, tol)
    \/ EndEndClose(l1, l2, tol)
    \/ StartStartClose(l1, l2, tol)
    \/ StartEndClose(l1, l2, tol)

\* the chain with no polyline reversed
MergeLinesNoReverse(l1, l2, tol) ==
    IF EndStartClose(l1, l2, tol) THEN l1 \o l2
    ELSE IF EndEndClose(l1, l2, tol) THEN l1 \o l2
    ELSE IF StartStartClose(l1, l2, tol) THEN l1 \o l2
    ELSE l2 \o l1

\* the if / elif chain of the inner loop
MergeLines(l1, l2, tol) ==
    IF EndStartClose(l1, l2, tol) THEN l1 \o l2
    ELSE IF EndEndClose(l1, l2, tol) THEN l1 \o Reverse(l2)
    ELSE IF StartStartClose(l1, l2, tol) THEN Reverse(l1) \o l2
    ELSE l2 \o l1

\* the partners the inner `for j` loop can stop at for line i
Partners(rl, i, used, tol) ==
    {j \in 1..Len(rl) : j # i /\ j \notin used /\ AnyClose(rl[i], rl[j], tol)}

\* the inner loop stopping at the last partner instead of the first
SetMinLast(S) == CHOOSE m \in S : \A k \in S : m >= k

SetMin(S) == CHOOSE m \in S : \A k \in S : m <= k

\* one pass of the outer `for i` loop, from index i on
RECURSIVE ScanFrom(_, _, _, _, _, _)
ScanFrom(rl, i, used, new_lines, jn, tol) ==
    IF i > Len(rl) THEN [lines |-> new_lines, joined |-> jn]
    ELSE IF i \in used THEN ScanFrom(rl, i + 1, used, new_lines, jn, tol)
    ELSE LET ps == Partners(rl, i, used, tol)
         IN  IF ps # {}
             THEN LET j == SetMin(ps)
                  IN  ScanFrom(rl, i + 1, used \cup {i, j},
                               Append(new_lines, MergeLines(rl[i], rl[j], tol)),
                               TRUE, tol)
             ELSE ScanFrom(rl, i + 1, used \cup {i},
                           Append(new_lines, rl[i]), jn, tol)

\* a scan that reports a merge whether or not it made one
ScanAlwaysJoined(rl, tol) == ScanFrom(rl, 1, {}, <<>>, TRUE, tol)

\* one iteration of `while joined and iteration < 100`
Scan(rl, tol) == ScanFrom(rl, 1, {}, <<>>, FALSE, tol)

\* the filter with > in place of >=
LengthFilterStrict(ls, minlen) == SelectSeq(ls, LAMBDA l : LineLength(l) > minlen)

\* [line for line in all_lines if self._line_length(line) >= self.min_line_length]
LengthFilter(ls, minlen) == SelectSeq(ls, LAMBDA l : LineLength(l) >= minlen)

\* the unpacking without the test of the type
PointsOfAnyType(tagged, t) == [i \in 1..Len(tagged) |-> tagged[i].points]

PointsOfType(tagged, t) ==
    LET sel == SelectSeq(tagged, LAMBDA item : item.type = t)
    IN  [i \in 1..Len(sel) |-> sel[i].points]

\* lines 864-873: unpack the tagged lines, joined = True, iteration = 0
JoinStart ==
    /\ pc = "join"
    /\ join_arg' = lines
    /\ regular_lines' = PointsOfType(lines, "regular")
    /\ solid_lines' = PointsOfType(lines, "solid")
    /\ joined' = TRUE
    /\ iteration' = 0
    /\ pc' = "join_loop"
    /\ UNCHANGED <<cfg, detectVars, input_exists, linesVars, img_shape, detected, lines, den,
                   scaleVars, pathVars, gcodeVars, exit_status>>

\* lines 875-939: one iteration of the while loop (a full scan)
JoinScan ==
    /\ pc = "join_loop"
    /\ joined /\ iteration < MaxJoinIterations
    /\ LET r == Scan(regular_lines, cfg.join_tolerance * den)
       IN  /\ regular_lines' = r.lines
           /\ joined' = r.joined
    /\ iteration' = iteration + 1
    /\ UNCHANGED <<pc, cfg, detectVars, input_exists, linesVars, img_shape, detected, lines, den,
                   join_arg, solid_lines, scaleVars, pathVars, gcodeVars,
                   exit_status>>

\* lines 941-948: recombine, drop the short lines, return
JoinFinish ==
    /\ pc = "join_loop"
    /\ ~(joined /\ iteration < MaxJoinIterations)
    /\ pc' = "optimize"
    /\ lines' = LengthFilter(regular_lines \o solid_lines,
                             cfg.min_line_length * den)
    /\ UNCHANGED <<cfg, detectVars, input_exists, linesVars, img_shape, detected, den,
                   joinVars, scaleVars, pathVars, gcodeVars, exit_status>>

-----------------------------------------------------------------------------
(* optimize_path *)

\* one pass of `for idx in remaining`, from position k of the list on; best
\* is (min_dist squared, nearest_idx, reverse_nearest), min_dist = -1 for inf
RECURSIVE NearestFrom(_, _, _, _, _)
NearestFrom(ls, rem, k, pos, best) ==
    IF k > Len(rem) THEN best
    ELSE LET idx == rem[k]
             line == ls[idx]
             dist_start == Norm2(line[1], pos)
             dist_end == Norm2(line[Len(line)], pos)
             b1 == IF best.dist = -1 \/ dist_start < best.dist
                   THEN [dist |-> dist_start, idx |-> idx, rev |-> FALSE]
                   ELSE best
             b2 == IF b1.dist = -1 \/ dist_end < b1.dist
                   THEN [dist |-> dist_end, idx |-> idx, rev |-> TRUE]
                   ELSE b1
         IN  NearestFrom(ls, rem, k + 1, pos, b2)

Nearest(ls, rem, pos) ==
    NearestFrom(ls, rem, 1, pos, [dist |-> -1, idx |-> -1, rev |-> FALSE])

\* remaining.pop(0) in place of remaining.remove(v)
RemoveFirst(s, v) == Tail(s)

\* remaining.remove(v)
Remove(s, v) == SelectSeq(s, LAMBDA e : e # v)

\* lines 959-968: the early return, or the set-up of the greedy loop
OptStart ==
    /\ pc = "optimize"
    /\ path_arg' = lines
    /\ IF Len(lines) <= 1
       THEN /\ pc' = "generate"
            /\ UNCHANGED <<current_pos, ordered_lines, remaining>>
       ELSE /\ current_pos' = <<cfg.margin * den, cfg.margin * den>>
            /\ ordered_lines' = <<>>
            /\ remaining' = [i \in 1..Len(lines) |-> i]
            /\ pc' = "opt_loop"
    /\ UNCHANGED <<cfg, detectVars, input_exists, linesVars, img_shape, detected, lines, den,
                   scaleVars, joinVars, gcodeVars, exit_status>>

\* lines 973-1004: one iteration of `while remaining`
OptStep ==
    /\ pc = "opt_loop"
    /\ remaining # <<>>
    /\ LET n == Nearest(lines, remaining, current_pos)
           line == IF n.rev THEN Reverse(lines[n.idx]) ELSE lines[n.idx]
       IN  /\ ordered_lines' = Append(ordered_lines, line)
           /\ remaining' = Remove(remaining, n.idx)
           /\ current_pos' = line[Len(line)]
    /\ UNCHANGED <<pc, cfg, detectVars, input_exists, linesVars, img_shape, detected, lines, den,
                   path_arg, scaleVars, joinVars, gcodeVars, exit_status>>

\* line 1019: return ordered_lines
OptFinish ==
    /\ pc = "opt_loop"
    /\ remaining = <<>>
    /\ lines' = ordered_lines
    /\ pc' = "generate"
    /\ UNCHANGED <<cfg, detectVars, input_exists, linesVars, img_shape, detected, den,
                   scaleVars, joinVars, pathVars, gcodeVars, exit_status>>

-----------------------------------------------------------------------------
(* generate_gcode *)

\* f"{v:.3f}": the coordinate v / d in thousandths, rounded to nearest
Fmt3(v, d) == (2000 * v + d) \div (2 * d)

Comment == [cmd |-> ";"]
Blank == [cmd |-> ""]
PenUp(c) == [cmd |-> "G0", z |-> c.z_up]
\* the pen-down command with the pen-up height
PenDownAtUp(c) == [cmd |-> "G0", z |-> c.z_up]
PenDown(c) == [cmd |-> "G0", z |-> c.z_down]
MoveOrigin == [cmd |-> "G0", x |-> 0, y |-> 0]
Travel(p, c, d) ==
    [cmd |-> "G0", x |-> Fmt3(p[1], d), y |-> Fmt3(p[2], d), f |-> c.travel_rate]
Draw(p, c, d) ==
    [cmd |-> "G1", x |-> Fmt3(p[1], d), y |-> Fmt3(p[2], d), f |-> c.feed_rate]

\* lines 1028-1055: the header
Header(c) ==
    [i \in 1..(IF c.fill_solid_areas THEN 21 ELSE 17) |-> Comment]
    \o <<Blank, [cmd |-> "G21"], [cmd |-> "G90"], PenUp(c), MoveOrigin, Blank>>

\* the block with the pen lowered before the travel
LineBlockPenFirst(line, c, d) ==
    <<PenDown(c), Travel(line[1], c, d)>>
    \o [k \in 1..(Len(line) - 1) |-> Draw(line[k + 1], c, d)]
    \o <<PenUp(c), Blank>>

\* lines 1063-1080: the commands of one polyline
LineBlock(line, c, d) ==
    <<Travel(line[1], c, d), PenDown(c)>>
    \o [k \in 1..(Len(line) - 1) |-> Draw(line[k + 1], c, d)]
    \o <<PenUp(c), Blank>>

RECURSIVE Body(_, _, _)
Body(ls, c, d) ==
    IF ls = <<>> THEN <<>>
    ELSE LineBlock(Head(ls), c, d) \o Body(Tail(ls), c, d)

\* lines 1083-1092: the footer
Footer(c) ==
    <<Comment, MoveOrigin, PenUp(c), Blank,
      Comment, Comment, Comment, Comment, [cmd |-> "M2"]>>

Program(ls, c, d) == Header(c) \o Body(ls, c, d) \o Footer(c)

\* the inner `for point in line[1:]` loop from vertex k on: acc is
\* (current_pos, total_draw_dist)
RECURSIVE DrawFrom(_, _, _)
DrawFrom(line, k, acc) ==
    IF k > Len(line) THEN acc
    ELSE DrawFrom(line, k + 1,
                  [pos |-> line[k], draw |-> acc.draw + Norm(line[k], acc.pos)])

\* lines 1058-1076: the accumulators over `for i, line in enumerate(lines)`
RECURSIVE Totals(_, _)
Totals(ls, acc) ==
    IF ls = <<>> THEN acc
    ELSE LET line == Head(ls)
             travel == acc.travel + Norm(line[1], acc.pos)
             drawn == DrawFrom(line, 2, [pos |-> acc.pos, draw |-> acc.draw])
         IN  Totals(Tail(ls),
                    [pos |-> drawn.pos, draw |-> drawn.draw, travel |-> travel])

\* generate_gcode: builds the program, accumulates the totals, writes the file
GenerateGcode ==
    /\ pc = "generate"
    /\ gcode' = Program(lines, cfg, den)
    /\ LET t == Totals(lines, [pos |-> <<0, 0>>, draw |-> 0, travel |-> 0])
       IN  /\ total_draw_dist' = t.draw
           /\ total_travel_dist' = t.travel
    /\ pc' = "generated"
    /\ UNCHANGED <<cfg, detectVars, input_exists, linesVars, img_shape, detected, lines, den,
                   scaleVars, joinVars, pathVars, exit_status>>

-----------------------------------------------------------------------------
(* scale_to_a4 and the scale computed by convert *)

\* self.paper_sizes: <<width, height>> in mm
PaperSizes ==
    [A3 |-> <<297, 420>>, A4 |-> <<210, 297>>,
     A5 |-> <<148, 210>>, A6 |-> <<105, 148>>]

RECURSIVE GCD(_, _)
GCD(a, b) == IF b = 0 THEN a ELSE GCD(b, a % b)

\* the rational n / d in lowest terms
Rat(n, d) == LET g == GCD(n, d) IN <<n \div g, d \div g>>

RatLess(a, b) == a[1] * b[2] < b[1] * a[2]

\* max in place of min
RatMax(a, b) == IF RatLess(b, a) THEN a ELSE b

\* min(scale_x, scale_y)
RatMin(a, b) == IF RatLess(b, a) THEN b ELSE a

UsableWidth(c) == PaperSizes[c.paper_size][1] - 2 * c.margin
UsableHeight(c) == PaperSizes[c.paper_size][2] - 2 * c.margin

\* lines 779-794: abs(img_aspect - portrait_aspect) < abs(img_aspect -
\* landscape_aspect) for `auto`, decided on the common denominator
A4UsePortrait(shape, c) ==
    LET img_height == shape[1]
        img_width == shape[2]
        uw == UsableWidth(c)
        uh == UsableHeight(c)
    IN  IF c.orientation = "auto"
        THEN Abs(img_width * uh - uw * img_height) * uw
               < Abs(img_width * uw - uh * img_height) * uh
        ELSE c.orientation = "portrait"

\* without the test for square images
A4NeedRotationNoSquare(shape, c) ==
    LET img_is_portrait == shape[2] < shape[1]
        up == A4UsePortrait(shape, c)
    IN  (up /\ ~img_is_portrait) \/ (~up /\ img_is_portrait)

\* lines 796-802
A4NeedRotation(shape, c) ==
    LET img_height == shape[1]
        img_width == shape[2]
        up == A4UsePortrait(shape, c)
    IN  IF img_width = img_height THEN FALSE
        ELSE LET img_is_portrait == img_width < img_height
             IN  (up /\ ~img_is_portrait) \/ (~up /\ img_is_portrait)

\* lines 820-828: <<target_width, target_height>>
TargetDims(up, c) ==
    IF up THEN <<UsableWidth(c), UsableHeight(c)>>
    ELSE <<UsableHeight(c), UsableWidth(c)>>

\* lines 804-818: <<img_height, img_width>> after the optional swap
RotatedShape(shape, rot) == IF rot THEN <<shape[2], shape[1]>> ELSE shape

\* lines 810-814: (x, y) -> (height - y, x)
RotatePoint(p, shape, rot) == IF rot THEN <<shape[1] - p[2], p[1]>> ELSE p

\* lines 830-833
A4Scale(shape, c) ==
    LET rot == A4NeedRotation(shape, c)
        sh == RotatedShape(shape, rot)
        t == TargetDims(A4UsePortrait(shape, c), c)
    IN  RatMin(Rat(t[1], sh[2]), Rat(t[2], sh[1]))

\* lines 835-852: the sheet point of pixel point p, as numerators over the
\* denominator 2 * sc[2] (sc the scale, sh the shape after rotation)
ScalePoint(p, sh, t, sc, c) ==
    LET n == sc[1]
        d == sc[2]
    IN  << 2 * p[1] * n + 2 * c.margin * d + t[1] * d - sh[2] * n,
           2 * (sh[1] - p[2]) * n + 2 * c.margin * d + t[2] * d - sh[1] * n >>

\* scale_to_a4, lines 763-858
ScaleToA4 ==
    /\ pc = "scale"
    /\ LET up == A4UsePortrait(img_shape, cfg)
           rot == A4NeedRotation(img_shape, cfg)
           sh == RotatedShape(img_shape, rot)
           t == TargetDims(up, cfg)
           sc == A4Scale(img_shape, cfg)
       IN  /\ use_portrait' = up
           /\ need_rotation' = rot
           /\ target' = t
           /\ scale' = sc
           /\ den' = 2 * sc[2]
           /\ lines' = [i \in 1..Len(lines) |->
                  [points |-> [k \in 1..Len(lines[i].points) |->
                                  ScalePoint(RotatePoint(lines[i].points[k],
                                                         img_shape, rot),
                                             sh, t, sc, cfg)],
                   type |-> lines[i].type]]
    /\ pc' = "join"
    /\ UNCHANGED <<cfg, detectVars, input_exists, linesVars, img_shape, detected, pixels_to_mm_scale,
                   joinVars, pathVars, gcodeVars, exit_status>>

\* convert, lines 1109-1132: self.pixels_to_mm_scale
ConvertScale(shape, c) ==
    LET img_height == shape[1]
        img_width == shape[2]
        up == IF c.orientation = "auto" THEN img_width < img_height
              ELSE c.orientation = "portrait"
        t == TargetDims(up, c)
    IN  RatMin(Rat(t[1], img_width), Rat(t[2], img_height))

-----------------------------------------------------------------------------
(* main and convert *)

\* main without the test of lines 1218-1220: the converter is always built
MainStartNoCheck ==
    /\ pc = "main"
    /\ pc' = "load"
    /\ UNCHANGED exit_status
    /\ UNCHANGED <<cfg, detectVars, input_exists, linesVars, img_shape, detected, lines, den,
                   scaleVars, joinVars, pathVars, gcodeVars>>

\* main, lines 1217-1225: the input file is validated, the converter built
MainStart ==
    /\ pc = "main"
    /\ IF ~input_exists
       THEN /\ exit_status' = 1
            /\ pc' = "done"
       ELSE /\ pc' = "load"
            /\ UNCHANGED exit_status
    /\ UNCHANGED <<cfg, detectVars, input_exists, linesVars, img_shape, detected, lines, den,
                   scaleVars, joinVars, pathVars, gcodeVars>>

\* convert, lines 1107-1138: the image is loaded and the pixel-to-mm scale set
ConvertLoad ==
    /\ pc = "load"
    /\ pixels_to_mm_scale' = ConvertScale(img_shape, cfg)
    /\ pc' = "detect"
    /\ UNCHANGED <<cfg, detectVars, input_exists, linesVars, img_shape, detected, lines, den,
                   scale, need_rotation, use_portrait, target,
                   joinVars, pathVars, gcodeVars, exit_status>>

\* convert handing the detected lines to the joiner unscaled
DetectLinesUnscaled ==
    /\ pc = "detect"
    /\ lines' = detected
    /\ IF detected = <<>>
       THEN /\ exit_status' = 1
            /\ pc' = "done"
       ELSE /\ pc' = "join"
            /\ UNCHANGED exit_status
    /\ UNCHANGED <<cfg, detectVars, input_exists, linesVars, img_shape, detected, den,
                   scaleVars, joinVars, pathVars, gcodeVars>>

\* convert, lines 1141-1145: detect_lines, and the failure when it finds nothing
DetectLines ==
    /\ pc = "detect"
    /\ lines' = detected
    /\ IF detected = <<>>
       THEN /\ exit_status' = 1
            /\ pc' = "done"
       ELSE /\ pc' = "scale"
            /\ UNCHANGED exit_status
    /\ UNCHANGED <<cfg, detectVars, input_exists, linesVars, img_shape, detected, den,
                   scaleVars, joinVars, pathVars, gcodeVars>>

\* convert, line 1159, and main, line 1228: return True, exit status 0
ConvertReturn ==
    /\ pc = "generated"
    /\ exit_status' = 0
    /\ pc' = "done"
    /\ UNCHANGED <<cfg, detectVars, input_exists, linesVars, img_shape, detected, lines, den,
                   scaleVars, joinVars, pathVars, gcodeVars>>

-----------------------------------------------------------------------------
(* detect_solid_areas.  A contour is the record of its measures             *)
(* [area, w, h, hull_area, perimeter] (cv2.contourArea, cv2.boundingRect,   *)
(* the area of cv2.convexHull, cv2.arcLength); contours and hierarchy are   *)
(* indexed from 0 as in the code, with -1 for `none`.  A quotient is kept   *)
(* as the pair <<numerator, denominator>> and compared by cross             *)
(* multiplication.                                                          *)

\* float('inf')
Inf == <<1, 0>>

\* what n / d leaves when d is 0: Python raises ZeroDivisionError
ZeroDivision == <<0, 0>>

\* n / d
Quot(n, d) == IF d = 0 THEN ZeroDivision ELSE <<n, d>>

\* q > a / b, q >= a / b, q < a / b for a quotient q and b > 0
Gt(q, a, b) == q[1] * b > a * q[2]
Ge(q, a, b) == q[1] * b >= a * q[2]
Lt(q, a, b) == q[1] * b < a * q[2]

\* line 105: effective_area, and line 119: calc_area
EffectiveArea(c) == IF c.area > 0 THEN c.area ELSE c.w * c.h
CalcArea(c) == IF c.area > 0 THEN c.area ELSE c.w * c.h

\* no exception for thin shapes
IsThinTallNever(c) == FALSE

\* line 109: is_thin_tall
IsThinTall(c) == (c.w < 20 /\ c.h > 15) \/ (c.h < 20 /\ c.w > 15)

\* line 111: the contour is passed over by `continue`
BelowMinimum(c, conf) ==
    EffectiveArea(c) < conf.min_solid_area /\ ~IsThinTall(c)

\* the quotient taken whatever the hull area
SolidityUnguarded(c) == Quot(CalcArea(c), c.hull_area)

\* lines 122-128: solidity
Solidity(c) ==
    IF c.hull_area > 0 THEN Quot(CalcArea(c), c.hull_area)
    ELSE IF CalcArea(c) > 0 THEN <<1, 1>>
    ELSE <<0, 1>>

\* line 138: compactness
Compactness(c) ==
    IF CalcArea(c) > 0 THEN Quot(c.perimeter * c.perimeter, CalcArea(c))
    ELSE Inf

\* area / perimeter for every contour
ThicknessNoFallback(c) ==
    IF c.perimeter > 0 THEN Quot(c.area, c.perimeter) ELSE <<0, 1>>

\* lines 145-149: thickness
Thickness(c) ==
    IF c.area > 0
    THEN IF c.perimeter > 0 THEN Quot(c.area, c.perimeter) ELSE <<0, 1>>
    ELSE <<Min(c.w, c.h), 1>>

\* line 150: thickness >= min_thickness (0.15)
ThickEnough(th) == Ge(th, 3, 20)

\* lines 170-174: children_area, summed along the sibling chain
RECURSIVE ChildrenArea(_, _, _)
ChildrenArea(child_idx, cs, hier) ==
    IF child_idx = -1 THEN 0
    ELSE cs[child_idx].area + ChildrenArea(hier[child_idx][1], cs, hier)

\* line 176: fill_ratio of contour i
FillRatio(i, cs, hier) ==
    LET calc_area == CalcArea(cs[i])
    IN  IF calc_area > 0
        THEN Quot(calc_area - ChildrenArea(hier[i][3], cs, hier), calc_area)
        ELSE <<0, 1>>

\* lines 181, 222: the crescent exception
Crescent(c, th, comp) ==
    CalcArea(c) > 500 /\ Gt(th, 3, 2) /\ Lt(comp, 1500, 1)

\* the test of line 191 without the fill ratio
ParentAcceptedNoFill(sol, comp, fill, th) ==
    Gt(sol, 2, 5) /\ Lt(comp, 200, 1) /\ ThickEnough(th)

\* line 191
ParentAccepted(sol, comp, fill, th) ==
    Gt(sol, 2, 5) /\ Lt(comp, 200, 1) /\ Gt(fill, 3, 20) /\ ThickEnough(th)

\* lines 201-213: a child, seen with the sets as they are when it is reached
ChildIsSolid(parent_idx, sol, comp, pi, rop) ==
    IF parent_idx \in rop THEN FALSE
    ELSE IF parent_idx \notin pi THEN Gt(sol, 19, 20) /\ Lt(comp, 50, 1)
    ELSE FALSE

\* lines 114-229: the body of the loop for contour i once it is past line
\* 112, with parent_indices = pi and rejected_outline_parents = rop
Classify(i, cs, hier, pi, rop) ==
    LET c == cs[i]
        sol == Solidity(c)
        has_children == hier[i][3] # -1
        is_child == hier[i][4] # -1
        comp == Compactness(c)
        th == Thickness(c)
        fill == FillRatio(i, cs, hier)
        none == [solidity |-> sol, compactness |-> comp, thickness |-> th,
                 fill_ratio |-> <<0, 1>>, entered |-> TRUE, filled |-> FALSE,
                 is_solid |-> FALSE, parent |-> FALSE, rejected |-> FALSE,
                 raises |-> FALSE]
    IN  IF sol = ZeroDivision
        THEN [none EXCEPT !.raises = TRUE, !.entered = FALSE]
        ELSE IF ~ Gt(sol, 0, 1)
        THEN [none EXCEPT !.entered = FALSE]
        ELSE IF comp = ZeroDivision \/ th = ZeroDivision
        THEN [none EXCEPT !.raises = TRUE]
        ELSE IF has_children /\ ~is_child
        THEN IF fill = ZeroDivision
             THEN [none EXCEPT !.raises = TRUE]
             ELSE IF Crescent(c, th, comp)
             THEN [none EXCEPT !.fill_ratio = fill, !.filled = TRUE,
                               !.is_solid = TRUE, !.parent = TRUE]
             ELSE IF ParentAccepted(sol, comp, fill, th)
             THEN [none EXCEPT !.fill_ratio = fill, !.filled = TRUE,
                               !.is_solid = TRUE, !.parent = TRUE]
             ELSE [none EXCEPT !.fill_ratio = fill, !.filled = TRUE,
                               !.rejected = TRUE]
        ELSE IF Gt(sol, 1, 4) /\ ThickEnough(th)
        THEN IF ~has_children /\ ~is_child
             THEN [none EXCEPT !.is_solid = TRUE]
             ELSE IF is_child
             THEN [none EXCEPT
                     !.is_solid = ChildIsSolid(hier[i][4], sol, comp, pi, rop)]
             ELSE IF ~has_children /\ Lt(comp, 100, 1)
             THEN [none EXCEPT !.is_solid = TRUE]
             ELSE none
        ELSE IF ~is_child /\ ThickEnough(th)
        THEN IF Crescent(c, th, comp)
             THEN [none EXCEPT !.is_solid = TRUE, !.parent = has_children]
             ELSE none
        ELSE none

\* detect_solid_areas, lines 84-92: the contours are traced, the result
\* lists initialised
DetectSolidStart ==
    /\ pc = "solid"
    /\ solid_areas' = <<>>
    /\ parent_indices' = {}
    /\ rejected_outline_parents' = {}
    /\ ci' = 0
    /\ pc' = "solid_loop"
    /\ UNCHANGED <<cfg, input_exists, linesVars, img_shape, detected, lines, den,
                   scaleVars, joinVars, pathVars, gcodeVars, exit_status,
                   hatchVars, contours, hierarchy, solidity, compactness, thickness,
                   fill_ratio>>

\* detect_solid_areas, lines 94-229: one turn of the loop over the contours;
\* a ZeroDivisionError leaves the function
ClassifyContour ==
    /\ pc = "solid_loop"
    /\ ci \in DOMAIN contours
    /\ IF BelowMinimum(contours[ci], cfg)
       THEN /\ ci' = ci + 1
            /\ UNCHANGED <<pc, solid_areas, parent_indices,
                           rejected_outline_parents, solidity, compactness,
                           thickness, fill_ratio>>
       ELSE LET r == Classify(ci, contours, hierarchy, parent_indices,
                              rejected_outline_parents)
            IN  /\ solidity' = r.solidity
                /\ compactness' = IF r.entered THEN r.compactness
                                  ELSE compactness
                /\ thickness' = IF r.entered THEN r.thickness ELSE thickness
                /\ fill_ratio' = IF r.filled THEN r.fill_ratio ELSE fill_ratio
                /\ IF r.raises
                   THEN /\ pc' = "raised"
                        /\ UNCHANGED <<ci, solid_areas, parent_indices,
                                       rejected_outline_parents>>
                   ELSE /\ pc' = pc
                        /\ ci' = ci + 1
                        /\ solid_areas' =
                              IF r.is_solid THEN Append(solid_areas, ci)
                              ELSE solid_areas
                        /\ parent_indices' =
                              IF r.parent THEN parent_indices \cup {ci}
                              ELSE parent_indices
                        /\ rejected_outline_parents' =
                              IF r.rejected
                              THEN rejected_outline_parents \cup {ci}
                              ELSE rejected_outline_parents
    /\ UNCHANGED <<cfg, input_exists, linesVars, img_shape, detected, lines, den,
                   scaleVars, joinVars, pathVars, gcodeVars, exit_status,
                   hatchVars, contours, hierarchy>>

\* detect_solid_areas, lines 231-234: every contour was visited
DetectSolidReturn ==
    /\ pc = "solid_loop"
    /\ ci \notin DOMAIN contours
    /\ pc' = "solid_done"
    /\ UNCHANGED <<cfg, input_exists, linesVars, img_shape, detected, lines, den,
                   scaleVars, joinVars, pathVars, gcodeVars, exit_status,
                   hatchVars, solidVars>>

-----------------------------------------------------------------------------
(* generate_hatch_lines.  A pixel is a pair <<x, y>>; a drawn contour is    *)
(* the set of pixels cv2.drawContours fills.  The hatch angle is a multiple *)
(* of 90 degrees, the spacing a whole number of pixels; a position on a     *)
(* hatch line is a pair of numerators over the denominator PosDen(box),     *)
(* which makes every sample and every 0.2 step of the code exact.           *)

\* max_steps of extend_to_boundary_precise
MaxExtendSteps == 1000

\* five times np.cos / np.sin of an angle given in degrees.  The angles are
\* the multiples of 90 and the angles of the 3-4-5 triangle, written to the
\* nearest degree: 37 is atan(3/4) = 36.87, 53 is atan(4/3) = 53.13.
CosDeg(a) ==
    CASE a % 360 = 0 -> 5 [] a % 360 = 90 -> 0
      [] a % 360 = 180 -> -5 [] a % 360 = 270 -> 0
      [] a % 360 = 37 -> 4 [] a % 360 = 127 -> -3
      [] a % 360 = 217 -> -4 [] a % 360 = 307 -> 3
      [] a % 360 = 53 -> 3 [] a % 360 = 143 -> -4
      [] a % 360 = 233 -> -3 [] a % 360 = 323 -> 4
SinDeg(a) ==
    CASE a % 360 = 0 -> 0 [] a % 360 = 90 -> 5
      [] a % 360 = 180 -> 0 [] a % 360 = 270 -> -5
      [] a % 360 = 37 -> 3 [] a % 360 = 127 -> 4
      [] a % 360 = 217 -> -3 [] a % 360 = 307 -> -4
      [] a % 360 = 53 -> 4 [] a % 360 = 143 -> 3
      [] a % 360 = 233 -> -4 [] a % 360 = 323 -> -3

\* int(round(n / d)), d > 0: Python rounds a half to the even neighbour
RoundHalfEven(n, d) ==
    LET q == n \div d
        r == n - q * d
    IN  IF 2 * r < d THEN q
        ELSE IF 2 * r > d THEN q + 1
        ELSE IF q % 2 = 0 THEN q ELSE q + 1

\* cv2.boundingRect: <<x, y, w, h>>
BoundingRect(S) ==
    LET xs == {p[1] : p \in S}
        ys == {p[2] : p \in S}
    IN  <<LeastOf(xs), LeastOf(ys),
          GreatestOf(xs) - LeastOf(xs) + 1, GreatestOf(ys) - LeastOf(ys) + 1>>

\* lines 254 and 257
IsThinHorizontal(box) == box[4] < 8 /\ box[3] > 4 * box[4]
IsThinVertical(box) == box[3] < 8 /\ box[4] > 4 * box[3]

\* lines 269 and 303: num_lines of the thin cases (the spacing is 1.0)
ThinLines(side) == IF side + 1 > 2 THEN side + 1 ELSE 2

\* lines 272-273 and 306-307: the row / column of line i
ThinCoord(from, side, i) ==
    RoundHalfEven(from * (ThinLines(side) - 1) + i * side,
                  ThinLines(side) - 1)

\* line 276 / 310 and 448 / 490: the pixel lies in the image
InImage(px, shape) ==
    /\ 0 <= px[1] /\ px[1] < shape[2]
    /\ 0 <= px[2] /\ px[2] < shape[1]

\* the segment of row y_line drawn across the whole width of the shape
ThinRowSegmentWholeBox(fill, y_line) ==
    LET x_coords == {p[1] : p \in {q \in fill : q[2] = y_line}}
        all_x == {p[1] : p \in fill}
    IN  IF x_coords = {} THEN <<>>
        ELSE << << <<LeastOf(all_x), y_line>>,
                   <<GreatestOf(all_x), y_line>> >> >>

\* lines 283-290: the segment of row y_line, none if the row is empty
ThinRowSegment(fill, y_line) ==
    LET x_coords == {p[1] : p \in {q \in fill : q[2] = y_line}}
    IN  IF x_coords = {} THEN <<>>
        ELSE << << <<LeastOf(x_coords), y_line>>,
                   <<GreatestOf(x_coords), y_line>> >> >>

\* lines 317-324: the segment of column x_line
ThinColumnSegment(fill, x_line) ==
    LET y_coords == {p[2] : p \in {q \in fill : q[1] = x_line}}
    IN  IF y_coords = {} THEN <<>>
        ELSE << << <<x_line, LeastOf(y_coords)>>,
                   <<x_line, GreatestOf(y_coords)>> >> >>

\* line 356: diagonal
Diagonal(box) == ISqrt(box[3] * box[3] + box[4] * box[4]) + 20

\* line 435: num_samples, the line being 2 * diagonal long
NumSamples(box) == 20 * Diagonal(box) + 20

\* the denominator of the positions: a fiftieth of a sample interval (the
\* centre is in halves, the 0.2 steps along the line in twenty-fifths)
PosDen(box) == 50 * (NumSamples(box) - 1)

\* ten times the perpendicular offset of the point with doubled coordinates
\* p2 from the centre of the box (lines 359, 379, 389)
PerpOffset10(p2, box, a) ==
    (p2[1] - (2 * box[1] + box[3])) * CosDeg(a + 90)
        + (p2[2] - (2 * box[2] + box[4])) * SinDeg(a + 90)

\* lines 376-391: ten times min_offset and max_offset, s the spacing in
\* pixels
MinOffset10(m, box, a, s) ==
    LET corners == {<<box[1], box[2]>>, <<box[1] + box[3], box[2]>>,
                    <<box[1], box[2] + box[4]>>,
                    <<box[1] + box[3], box[2] + box[4]>>}
    IN  LeastOf({PerpOffset10(<<2 * p[1], 2 * p[2]>>, box, a) - 20 * s :
                    p \in m}
                \cup {PerpOffset10(<<2 * p[1], 2 * p[2]>>, box, a) - 10 * s :
                         p \in corners})
MaxOffset10(m, box, a, s) ==
    LET corners == {<<box[1], box[2]>>, <<box[1] + box[3], box[2]>>,
                    <<box[1], box[2] + box[4]>>,
                    <<box[1] + box[3], box[2] + box[4]>>}
    IN  GreatestOf({PerpOffset10(<<2 * p[1], 2 * p[2]>>, box, a) + 20 * s :
                       p \in m}
                   \cup {PerpOffset10(<<2 * p[1], 2 * p[2]>>, box, a) + 10 * s :
                            p \in corners})

\* lines 394-403: all_offsets, times ten
AllOffsets10(m, box, a, s) ==
    LET lo == MinOffset10(m, box, a, s)
        num_lines == (MaxOffset10(m, box, a, s) - lo) \div (10 * s) + 3
    IN  [i \in 1..num_lines |-> lo + 10 * (i - 1) * s]

\* lines 408-413 and 546-549: fifty times the point (px, py) (sign -1) or
\* (qx, qy) (sign 1) of the line at ten times the offset o10
FarPoint50(o10, box, a, sign) ==
    << 25 * (2 * box[1] + box[3]) + o10 * CosDeg(a + 90)
          + sign * 10 * Diagonal(box) * CosDeg(a),
       25 * (2 * box[2] + box[4]) + o10 * SinDeg(a + 90)
          + sign * 10 * Diagonal(box) * SinDeg(a) >>

\* lines 408-413: line_start (sign -1) and line_end (sign 1) of the hatch
\* line at ten times the offset o10
LineEnd(o10, box, a, sign) ==
    LET per == NumSamples(box) - 1
        far == FarPoint50(o10, box, a, sign)
    IN  <<per * far[1], per * far[2]>>

\* lines 405-435, 476, 482: the hatch line at ten times the offset o10: its
\* ends, the number of its last sample, the vector from one sample to the
\* next and the vector of one 0.2 step, all over the denominator pos_den
HatchLine(o10, box, a) ==
    [line_start |-> LineEnd(o10, box, a, -1),
     line_end |-> LineEnd(o10, box, a, 1),
     last |-> NumSamples(box) - 1,
     sample_vec |-> <<20 * Diagonal(box) * CosDeg(a),
                      20 * Diagonal(box) * SinDeg(a)>>,
     step_vec |-> <<2 * (NumSamples(box) - 1) * CosDeg(a),
                    2 * (NumSamples(box) - 1) * SinDeg(a)>>,
     pos_den |-> PosDen(box)]

\* lines 442-443: the point of sample sample_idx
SamplePoint(sample_idx, ln) ==
    << ln.line_start[1] + sample_idx * ln.sample_vec[1],
       ln.line_start[2] + sample_idx * ln.sample_vec[2] >>

\* lines 445, 487, 512: int(round(.)) of both coordinates of a position
PixelOf(pos, pos_den) ==
    <<RoundHalfEven(pos[1], pos_den), RoundHalfEven(pos[2], pos_den)>>

\* lines 447-457: the position is in the image and on the mask
OnMask(pos, pos_den, m, shape) ==
    InImage(PixelOf(pos, pos_den), shape) /\ PixelOf(pos, pos_den) \in m

\* the members of a set of integers in increasing order
RECURSIVE Ascending(_)
Ascending(S) ==
    IF S = {} THEN <<>>
    ELSE <<LeastOf(S)>> \o Ascending(S \ {LeastOf(S)})

\* lines 437-472: the runs of consecutive samples on the mask.  A run opens
\* at a sample on the mask that follows none or one that is not, and is
\* closed at the first later sample that is outside the image or off the
\* mask, or at line_end.
Intersections(ln, m, shape) ==
    LET on == {k \in 0..ln.last :
                  OnMask(SamplePoint(k, ln), ln.pos_den, m, shape)}
        opens == Ascending({k \in on : (k - 1) \notin on})
        CloseOf(k) ==
            IF \A j \in (k + 1)..ln.last : j \in on THEN ln.line_end
            ELSE SamplePoint(CHOOSE j \in (k + 1)..ln.last :
                                 j \notin on /\ \A i \in k..(j - 1) : i \in on,
                             ln)
    IN  [n \in 1..Len(opens) |->
            <<SamplePoint(opens[n], ln), CloseOf(opens[n])>>]

\* lines 478-500: extend_to_boundary_precise from pos in the direction
\* sign * hatch_dir, `steps` turns of its loop left
RECURSIVE ExtendToBoundaryPrecise(_, _, _, _, _, _, _)
ExtendToBoundaryPrecise(pos, last_valid, sign, steps, ln, m, shape) ==
    IF steps = 0 THEN last_valid
    ELSE LET next == <<pos[1] + sign * ln.step_vec[1],
                       pos[2] + sign * ln.step_vec[2]>>
         IN  IF ~InImage(PixelOf(next, ln.pos_den), shape) THEN last_valid
             ELSE IF PixelOf(next, ln.pos_den) \in m
             THEN ExtendToBoundaryPrecise(next, next, sign, steps - 1,
                                          ln, m, shape)
             ELSE last_valid

\* lines 509-510: seg_length > 0.5
LongEnough(p, q, pos_den) ==
    IF 2 * Abs(p[1] - q[1]) > pos_den \/ 2 * Abs(p[2] - q[2]) > pos_den
    THEN TRUE
    ELSE Norm2(p, q) > (pos_den * pos_den) \div 4

\* lines 503-514: the segments appended for the runs of one hatch line
RECURSIVE HatchSegments(_, _, _, _)
HatchSegments(runs, ln, m, shape) ==
    IF runs = <<>> THEN <<>>
    ELSE LET seg == Head(runs)
             extended_start ==
                 ExtendToBoundaryPrecise(seg[1], seg[1], -1, MaxExtendSteps,
                                         ln, m, shape)
             extended_end ==
                 ExtendToBoundaryPrecise(seg[2], seg[2], 1, MaxExtendSteps,
                                         ln, m, shape)
         IN  (IF LongEnough(extended_start, extended_end, ln.pos_den)
              THEN << <<PixelOf(extended_start, ln.pos_den),
                        PixelOf(extended_end, ln.pos_den)>> >>
              ELSE <<>>)
             \o HatchSegments(Tail(runs), ln, m, shape)

\* line 518: the corner lines are added
CornerLines(hl, a) == Len(hl) > 0 /\ Abs(a % 90) > 5

\* lines 522-534: the corners of the mask's extremes
MaskCorners(m) ==
    LET ext == BoundingRect(m)
        min_x == ext[1]
        min_y == ext[2]
        max_x == ext[1] + ext[3] - 1
        max_y == ext[2] + ext[4] - 1
    IN  << <<min_x, min_y>>, <<max_x, min_y>>,
           <<min_x, max_y>>, <<max_x, max_y>> >>

\* line 526: corner_margin
CornerMargin(m) ==
    LET ext == BoundingRect(m)
    IN  Min(ext[3] - 1, ext[4] - 1) \div 10

\* lines 537-545: ten times the offset of the line `extra` half-spacings
\* from the corner
CornerOffset10(corner, box, a, s, extra) ==
    PerpOffset10(<<2 * corner[1], 2 * corner[2]>>, box, a) + extra * 5 * s

\* max(0, min(hi, v))
Clamp(v, hi) == IF v < 0 THEN 0 ELSE IF v > hi THEN hi ELSE v

\* lines 551-561: p1_corner (sign -1) and p2_corner (sign 1): the far
\* point rounded to a pixel and clipped to the image
CornerEnd(o10, box, a, sign, shape) ==
    LET far == FarPoint50(o10, box, a, sign)
    IN  <<Clamp(RoundHalfEven(far[1], 50), shape[2] - 1),
          Clamp(RoundHalfEven(far[2], 50), shape[1] - 1)>>

\* lines 564-573: the corner line from pixel p1 to pixel p2, as HatchLine;
\* num_samples is int(line_length * 2) + 10
CornerLine(p1, p2, a) ==
    LET per == ISqrt(4 * Norm2(p1, p2)) + 9
    IN  [line_start |-> <<50 * per * p1[1], 50 * per * p1[2]>>,
         line_end |-> <<50 * per * p2[1], 50 * per * p2[2]>>,
         last |-> per,
         sample_vec |-> <<50 * (p2[1] - p1[1]), 50 * (p2[2] - p1[2])>>,
         step_vec |-> <<2 * per * CosDeg(a), 2 * per * SinDeg(a)>>,
         pos_den |-> 50 * per]

\* lines 609-611: the centre of the run is nearer than corner_margin to the
\* corner in both coordinates
NearCorner(seg, corner, margin, pos_den) ==
    /\ Abs(seg[1][1] + seg[2][1] - 2 * corner[1] * pos_den)
          < 2 * margin * pos_den
    /\ Abs(seg[1][2] + seg[2][2] - 2 * corner[2] * pos_den)
          < 2 * margin * pos_den

\* lines 607-622: the segments appended for the runs of one corner line
RECURSIVE CornerSegments(_, _, _, _, _, _)
CornerSegments(runs, ln, m, shape, corner, margin) ==
    IF runs = <<>> THEN <<>>
    ELSE LET seg == Head(runs)
             extended_start ==
                 ExtendToBoundaryPrecise(seg[1], seg[1], -1, MaxExtendSteps,
                                         ln, m, shape)
             extended_end ==
                 ExtendToBoundaryPrecise(seg[2], seg[2], 1, MaxExtendSteps,
                                         ln, m, shape)
         IN  (IF /\ NearCorner(seg, corner, margin, ln.pos_den)
                 /\ LongEnough(extended_start, extended_end, ln.pos_den)
              THEN << <<PixelOf(extended_start, ln.pos_den),
                        PixelOf(extended_end, ln.pos_den)>> >>
              ELSE <<>>)
             \o CornerSegments(Tail(runs), ln, m, shape, corner, margin)

\* generate_hatch_lines, lines 236-262, 296-303, 328-403: the case is chosen,
\* the mask drawn and the offsets laid out
HatchStart ==
    /\ pc = "hatch"
    /\ hatch_lines' = <<>>
    /\ hatch_i' = 0
    /\ LET box == BoundingRect(hatch_region.fill)
       IN  IF IsThinHorizontal(box)
           THEN /\ pc' = "hatch_rows"
                /\ mask' = hatch_region.fill
                /\ all_offsets' = <<>>
           ELSE IF IsThinVertical(box)
           THEN /\ pc' = "hatch_columns"
                /\ mask' = hatch_region.fill
                /\ all_offsets' = <<>>
           ELSE LET m == hatch_region.fill \ hatch_region.holes
                IN  /\ mask' = m
                    /\ IF m = {}
                       THEN /\ pc' = "hatch_done"
                            /\ all_offsets' = <<>>
                       ELSE /\ pc' = "hatch_offsets"
                            /\ all_offsets' =
                                  AllOffsets10(m, box, cfg.hatch_angle,
                                              cfg.hatch_spacing_pixels)
    /\ UNCHANGED <<cfg, input_exists, linesVars, img_shape, detected, lines, den,
                   scaleVars, joinVars, pathVars, gcodeVars, exit_status,
                   solidVars, hatch_region, line_start, line_end>>

\* lines 271-290: one turn of the loop over the rows of a thin horizontal
\* shape
HatchThinRow ==
    /\ pc = "hatch_rows"
    /\ LET box == BoundingRect(hatch_region.fill)
           y_line == ThinCoord(box[2], box[4], hatch_i)
       IN  /\ hatch_i < ThinLines(box[4])
           /\ hatch_lines' =
                 IF y_line < 0 \/ y_line >= img_shape[1] THEN hatch_lines
                 ELSE hatch_lines \o ThinRowSegment(mask, y_line)
    /\ hatch_i' = hatch_i + 1
    /\ UNCHANGED <<pc, cfg, input_exists, linesVars, img_shape, detected, lines, den,
                   scaleVars, joinVars, pathVars, gcodeVars, exit_status,
                   solidVars, hatch_region, mask, all_offsets,
                   line_start, line_end>>

\* lines 305-324: one turn of the loop over the columns of a thin vertical
\* shape
HatchThinColumn ==
    /\ pc = "hatch_columns"
    /\ LET box == BoundingRect(hatch_region.fill)
           x_line == ThinCoord(box[1], box[3], hatch_i)
       IN  /\ hatch_i < ThinLines(box[3])
           /\ hatch_lines' =
                 IF x_line < 0 \/ x_line >= img_shape[2] THEN hatch_lines
                 ELSE hatch_lines \o ThinColumnSegment(mask, x_line)
    /\ hatch_i' = hatch_i + 1
    /\ UNCHANGED <<pc, cfg, input_exists, linesVars, img_shape, detected, lines, den,
                   scaleVars, joinVars, pathVars, gcodeVars, exit_status,
                   solidVars, hatch_region, mask, all_offsets,
                   line_start, line_end>>

\* lines 405-514: one turn of the loop over all_offsets
HatchOffsetLine ==
    /\ pc = "hatch_offsets"
    /\ hatch_i < Len(all_offsets)
    /\ LET box == BoundingRect(hatch_region.fill)
           ln == HatchLine(all_offsets[hatch_i + 1], box, cfg.hatch_angle)
           runs == Intersections(ln, mask, img_shape)
       IN  /\ line_start' =
                 FarPoint50(all_offsets[hatch_i + 1], box, cfg.hatch_angle, -1)
           /\ line_end' =
                 FarPoint50(all_offsets[hatch_i + 1], box, cfg.hatch_angle, 1)
           /\ hatch_lines' =
                 hatch_lines \o HatchSegments(runs, ln, mask, img_shape)
    /\ hatch_i' = hatch_i + 1
    /\ UNCHANGED <<pc, cfg, input_exists, linesVars, img_shape, detected, lines, den,
                   scaleVars, joinVars, pathVars, gcodeVars, exit_status,
                   solidVars, hatch_region, mask, all_offsets>>

\* lines 518-537: the offsets are done and the corner lines are due
HatchCornersBegin ==
    /\ pc = "hatch_offsets"
    /\ hatch_i = Len(all_offsets)
    /\ CornerLines(hatch_lines, cfg.hatch_angle)
    /\ pc' = "hatch_corners"
    /\ hatch_i' = 0
    /\ UNCHANGED <<cfg, input_exists, linesVars, img_shape, detected, lines, den,
                   scaleVars, joinVars, pathVars, gcodeVars, exit_status,
                   solidVars, hatch_region, mask, all_offsets,
                   line_start, line_end, hatch_lines>>

\* lines 539-622: one turn of the loops over the corners and over
\* range(-2, 3); hatch_i counts the turns of both
HatchCornerLine ==
    /\ pc = "hatch_corners"
    /\ hatch_i < 20
    /\ LET box == BoundingRect(hatch_region.fill)
           corner == MaskCorners(mask)[(hatch_i \div 5) + 1]
           extra == (hatch_i % 5) - 2
           o10 == CornerOffset10(corner, box, cfg.hatch_angle,
                                 cfg.hatch_spacing_pixels, extra)
           p1_corner == CornerEnd(o10, box, cfg.hatch_angle, -1, img_shape)
           p2_corner == CornerEnd(o10, box, cfg.hatch_angle, 1, img_shape)
           ln == CornerLine(p1_corner, p2_corner, cfg.hatch_angle)
       IN  /\ line_start' = <<50 * p1_corner[1], 50 * p1_corner[2]>>
           /\ line_end' = <<50 * p2_corner[1], 50 * p2_corner[2]>>
           /\ hatch_lines' =
                 IF p1_corner = p2_corner THEN hatch_lines
                 ELSE hatch_lines
                      \o CornerSegments(Intersections(ln, mask, img_shape),
                                        ln, mask, img_shape, corner,
                                        CornerMargin(mask))
    /\ hatch_i' = hatch_i + 1
    /\ UNCHANGED <<pc, cfg, input_exists, linesVars, img_shape, detected, lines, den,
                   scaleVars, joinVars, pathVars, gcodeVars, exit_status,
                   solidVars, hatch_region, mask, all_offsets>>

\* lines 292, 326, 624: the loops are over and hatch_lines is returned
HatchReturn ==
    /\ \/ /\ pc = "hatch_rows"
          /\ hatch_i = ThinLines(BoundingRect(hatch_region.fill)[4])
       \/ /\ pc = "hatch_columns"
          /\ hatch_i = ThinLines(BoundingRect(hatch_region.fill)[3])
       \/ /\ pc = "hatch_offsets"
          /\ hatch_i = Len(all_offsets)
          /\ ~CornerLines(hatch_lines, cfg.hatch_angle)
       \/ /\ pc = "hatch_corners"
          /\ hatch_i = 20
    /\ pc' = "hatch_done"
    /\ UNCHANGED <<cfg, input_exists, linesVars, img_shape, detected, lines, den,
                   scaleVars, joinVars, pathVars, gcodeVars, exit_status,
                   solidVars, hatchVars>>

-----------------------------------------------------------------------------
(* detect_lines *)

\* lines 636-640: binary_img with the contour of every solid area drawn
\* filled in black
MaskForLines(img, areas) ==
    img \ UNION {areas[k].fill : k \in 1..Len(areas)}

\* lines 271-290 as a function: the segments of the rows from line i on
RECURSIVE ThinRowLines(_, _, _)
ThinRowLines(i, fill, shape) ==
    LET box == BoundingRect(fill)
        y_line == ThinCoord(box[2], box[4], i)
    IN  IF i >= ThinLines(box[4]) THEN <<>>
        ELSE (IF y_line < 0 \/ y_line >= shape[1] THEN <<>>
              ELSE ThinRowSegment(fill, y_line))
             \o ThinRowLines(i + 1, fill, shape)

\* lines 305-324 as a function: the segments of the columns from line i on
RECURSIVE ThinColumnLines(_, _, _)
ThinColumnLines(i, fill, shape) ==
    LET box == BoundingRect(fill)
        x_line == ThinCoord(box[1], box[3], i)
    IN  IF i >= ThinLines(box[3]) THEN <<>>
        ELSE (IF x_line < 0 \/ x_line >= shape[2] THEN <<>>
              ELSE ThinColumnSegment(fill, x_line))
             \o ThinColumnLines(i + 1, fill, shape)

\* lines 405-514 as a function: the segments of the offsets after the
\* first i
RECURSIVE OffsetLines(_, _, _, _, _, _)
OffsetLines(i, offsets, box, m, shape, a) ==
    IF i >= Len(offsets) THEN <<>>
    ELSE LET ln == HatchLine(offsets[i + 1], box, a)
         IN  HatchSegments(Intersections(ln, m, shape), ln, m, shape)
             \o OffsetLines(i + 1, offsets, box, m, shape, a)

\* lines 536-622 as a function: the segments of the corner lines after the
\* first i
RECURSIVE CornerBundle(_, _, _, _, _, _)
CornerBundle(i, box, m, shape, a, s) ==
    IF i >= 20 THEN <<>>
    ELSE LET corner == MaskCorners(m)[(i \div 5) + 1]
             o10 == CornerOffset10(corner, box, a, s, (i % 5) - 2)
             p1_corner == CornerEnd(o10, box, a, -1, shape)
             p2_corner == CornerEnd(o10, box, a, 1, shape)
             ln == CornerLine(p1_corner, p2_corner, a)
         IN  (IF p1_corner = p2_corner THEN <<>>
              ELSE CornerSegments(Intersections(ln, m, shape), ln, m, shape,
                                  corner, CornerMargin(m)))
             \o CornerBundle(i + 1, box, m, shape, a, s)

\* generate_hatch_lines, lines 236-624, as a function of the region, the
\* image shape, the hatch angle and the spacing
GenerateHatchLines(region, shape, a, s) ==
    LET box == BoundingRect(region.fill)
        m == region.fill \ region.holes
    IN  IF IsThinHorizontal(box) THEN ThinRowLines(0, region.fill, shape)
        ELSE IF IsThinVertical(box) THEN ThinColumnLines(0, region.fill, shape)
        ELSE IF m = {} THEN <<>>
        ELSE LET regular == OffsetLines(0, AllOffsets10(m, box, a, s),
                                        box, m, shape, a)
             IN  regular
                 \o (IF CornerLines(regular, a)
                     THEN CornerBundle(0, box, m, shape, a, s)
                     ELSE <<>>)

\* lines 690-703: a solid area's contour simplified and closed.  The drawn
\* contours are rectangles: the simplified contour is the corners, in the
\* order of the trace from corner `first` on, and none for a single pixel
Outline(fill, first) ==
    LET box == BoundingRect(fill)
        x0 == box[1]
        y0 == box[2]
        x1 == box[1] + box[3] - 1
        y1 == box[2] + box[4] - 1
        points == IF x0 = x1 /\ y0 = y1 THEN <<>>
                  ELSE IF x0 = x1 THEN << <<x0, y0>>, <<x0, y1>> >>
                  ELSE IF y0 = y1 THEN << <<x0, y0>>, <<x1, y0>> >>
                  ELSE << <<x0, y0>>, <<x0, y1>>, <<x1, y1>>, <<x1, y0>> >>
        n == Len(points)
        turned == [k \in 1..n |-> points[((k + first - 2) % n) + 1]]
    IN  IF n >= 2 THEN <<turned \o <<turned[1]>> >> ELSE <<>>

\* the corners the model lets a simplified contour start at
OutlineStarts == {1, 3}

\* lines 688-704: the outlines of the solid areas after the first k; firsts
\* gives the corner each simplified contour starts at
RECURSIVE Outlines(_, _, _)
Outlines(k, areas, firsts) ==
    IF k >= Len(areas) THEN <<>>
    ELSE Outline(areas[k + 1].fill, firsts[k + 1])
         \o Outlines(k + 1, areas, firsts)

\* the first and the last set pixel in reading order
FirstPixel(ps) ==
    CHOOSE p \in ps : \A q \in ps : p[2] < q[2] \/ (p[2] = q[2] /\ p[1] <= q[1])
LastPixel(ps) ==
    CHOOSE p \in ps : \A q \in ps : p[2] > q[2] \/ (p[2] = q[2] /\ p[1] >= q[1])

\* lines 715-750: what the skeleton of the set pixels ps is traced and
\* simplified to.  Thinning and tracing are the library's: the model lets
\* them find nothing or one stroke between two pixels of ps
TracedLines(ps) ==
    {<<>>} \cup (IF ps = {} \/ FirstPixel(ps) = LastPixel(ps) THEN {}
                 ELSE {<< <<FirstPixel(ps), LastPixel(ps)>> >>})

\* lines 755-758: the strokes tagged regular, then the solid lines tagged
\* solid
TaggedLines(strokes, solid) ==
    [k \in 1..Len(strokes) |-> [points |-> strokes[k], type |-> "regular"]]
    \o [k \in 1..Len(solid) |-> [points |-> solid[k], type |-> "solid"]]

\* lines 630-640 and 710-711: the solid areas are blanked in the mask for
\* line detection; without fill the image itself is used
DetectLinesStart ==
    /\ pc = "detect_lines"
    /\ found_lines' = <<>>
    /\ area_idx' = 0
    /\ IF cfg.fill_solid_areas
       THEN /\ mask_for_lines' = MaskForLines(binary_img, area_regions)
            /\ hatch_pass' = 1
            /\ pc' = "hatch_pass"
            /\ UNCHANGED binary_for_lines
       ELSE /\ binary_for_lines' = binary_img
            /\ pc' = "thinning"
            /\ UNCHANGED <<mask_for_lines, hatch_pass>>
    /\ UNCHANGED <<cfg, input_exists, img_shape, detected, lines, den,
                   scaleVars, joinVars, pathVars, gcodeVars, exit_status,
                   detectVars, binary_img, area_regions, pass1_count,
                   original_angle>>

\* lines 647-650, 662-665, 677-680: generate_hatch_lines is called for the
\* next solid area
DetectHatchCall ==
    /\ pc = "hatch_pass"
    /\ area_idx < Len(area_regions)
    /\ hatch_region' = area_regions[area_idx + 1]
    /\ pc' = "hatch"
    /\ UNCHANGED <<cfg, input_exists, linesVars, img_shape, detected, lines,
                   den, scaleVars, joinVars, pathVars, gcodeVars, exit_status,
                   solidVars, mask, all_offsets, hatch_i, line_start,
                   line_end, hatch_lines>>

\* lines 651, 666, 681: solid_lines.extend(hatch_lines)
DetectHatchExtend ==
    /\ pc = "hatch_done"
    /\ hatch_pass \in {1, 2}
    /\ found_lines' = found_lines \o hatch_lines
    /\ area_idx' = area_idx + 1
    /\ pc' = "hatch_pass"
    /\ UNCHANGED <<cfg, input_exists, img_shape, detected, lines, den,
                   scaleVars, joinVars, pathVars, gcodeVars, exit_status,
                   detectVars, binary_img, area_regions, mask_for_lines,
                   binary_for_lines, hatch_pass, pass1_count, original_angle>>

\* the second pass at the angle of the first
DetectSecondPassSameAngle ==
    /\ pc = "hatch_pass"
    /\ hatch_pass = 1
    /\ area_idx = Len(area_regions)
    /\ cfg.crosshatch
    /\ pass1_count' = Len(found_lines)
    /\ original_angle' = cfg.hatch_angle
    /\ hatch_pass' = 2
    /\ area_idx' = 0
    /\ UNCHANGED <<pc, cfg, input_exists, img_shape, detected, lines, den,
                   scaleVars, joinVars, pathVars, gcodeVars, exit_status,
                   detectVars, binary_img, area_regions, mask_for_lines,
                   binary_for_lines, found_lines>>

\* lines 653-659: the first pass is over, the perpendicular one begins
DetectSecondPass ==
    /\ pc = "hatch_pass"
    /\ hatch_pass = 1
    /\ area_idx = Len(area_regions)
    /\ cfg.crosshatch
    /\ pass1_count' = Len(found_lines)
    /\ original_angle' = cfg.hatch_angle
    /\ cfg' = [cfg EXCEPT !.hatch_angle = cfg.hatch_angle + 90]
    /\ hatch_pass' = 2
    /\ area_idx' = 0
    /\ UNCHANGED <<pc, input_exists, img_shape, detected, lines, den,
                   scaleVars, joinVars, pathVars, gcodeVars, exit_status,
                   detectVars, binary_img, area_regions, mask_for_lines,
                   binary_for_lines, found_lines>>

\* lines 668-669, 674-683: the hatching is over; after a second pass the
\* angle is put back
DetectHatchEnd ==
    /\ pc = "hatch_pass"
    /\ area_idx = Len(area_regions)
    /\ \/ /\ ~cfg.crosshatch
          /\ hatch_pass = 1
          /\ UNCHANGED cfg
       \/ /\ cfg.crosshatch
          /\ hatch_pass = 2
          /\ cfg' = [cfg EXCEPT !.hatch_angle = original_angle]
    /\ pc' = "outlines"
    /\ UNCHANGED <<input_exists, linesVars, img_shape, detected, lines, den,
                   scaleVars, joinVars, pathVars, gcodeVars, exit_status,
                   detectVars>>

\* lines 685-709: the outlines of the solid areas are added and the masked
\* image taken for line detection
DetectOutlines ==
    /\ pc = "outlines"
    /\ \E firsts \in [1..Len(area_regions) -> OutlineStarts] :
          found_lines' = found_lines \o Outlines(0, area_regions, firsts)
    /\ binary_for_lines' = mask_for_lines
    /\ pc' = "thinning"
    /\ UNCHANGED <<cfg, input_exists, img_shape, detected, lines, den,
                   scaleVars, joinVars, pathVars, gcodeVars, exit_status,
                   detectVars, binary_img, area_regions, mask_for_lines,
                   hatch_pass, area_idx, pass1_count, original_angle>>

\* lines 713-761: the image for line detection is thinned and traced, and
\* the tagged lines are returned
DetectLinesReturn ==
    /\ pc = "thinning"
    /\ \E strokes \in TracedLines(binary_for_lines) :
          detected' = TaggedLines(strokes, found_lines)
    /\ pc' = "detect_returned"
    /\ UNCHANGED <<cfg, input_exists, linesVars, img_shape, lines, den,
                   scaleVars, joinVars, pathVars, gcodeVars, exit_status,
                   detectVars>>

-----------------------------------------------------------------------------
(* Inputs *)

\* a configuration of the converter: the argparse defaults, with whole
\* millimetres for the join tolerance and the minimum length
DefaultCfg ==
    [paper_size |-> "A4", orientation |-> "auto", margin |-> 1,
     join_tolerance |-> 1, min_line_length |-> 1,
     z_up |-> 3, z_down |-> 0,
     feed_rate |-> DefaultFeedRate, travel_rate |-> DefaultTravelRate,
     fill_solid_areas |-> FALSE, min_solid_area |-> 100,
     hatch_angle |-> 45, hatch_spacing_pixels |-> 1, crosshatch |-> FALSE]

Orientations == {"auto", "portrait", "landscape"}

\* sequences over S of length lo..hi
SeqsOf(S, lo, hi) == UNION {[1..n -> S] : n \in lo..hi}

\* vertices with whole pairwise distances 3, 4 and 5
Triangle == {<<0, 0>>, <<3, 0>>, <<3, 4>>}

\* the two-vertex polylines between distinct points of P
Segments(P) == {s \in P \X P : s[1] # s[2]}

\* the sides of the rectangle with corners (0,0) and (3,4), both directions
Sides ==
    {s \in Segments({<<0, 0>>, <<3, 0>>, <<3, 4>>, <<0, 4>>}) :
        s[1][1] = s[2][1] \/ s[1][2] = s[2][2]}

\* a short and a long hatch segment
Hatches == {<<<<0, 0>>, <<3, 0>>>>, <<<<0, 0>>, <<3, 4>>>>}

Tag(S, t) == {[points |-> l, type |-> t] : l \in S}

\* detect_solid_areas has not run: no contour, no local bound yet
SolidLocalsUnset ==
    /\ ci = 0
    /\ solid_areas = <<>>
    /\ parent_indices = {}
    /\ rejected_outline_parents = {}
    /\ solidity = <<0, 1>>
    /\ compactness = <<0, 1>>
    /\ thickness = <<0, 1>>
    /\ fill_ratio = <<0, 1>>

SolidIdle ==
    /\ contours = <<>>
    /\ hierarchy = <<>>
    /\ SolidLocalsUnset

\* generate_hatch_lines has not run
HatchLocalsUnset ==
    /\ mask = {}
    /\ all_offsets = <<>>
    /\ hatch_i = 0
    /\ line_start = <<0, 0>>
    /\ line_end = <<0, 0>>
    /\ hatch_lines = <<>>

HatchIdle ==
    /\ hatch_region = [fill |-> {}, holes |-> {}]
    /\ HatchLocalsUnset

\* detect_lines has not run
LinesLocalsUnset ==
    /\ mask_for_lines = {}
    /\ binary_for_lines = {}
    /\ hatch_pass = 0
    /\ area_idx = 0
    /\ found_lines = <<>>
    /\ pass1_count = 0
    /\ original_angle = -1

\* no image is held
NoImage ==
    /\ binary_img = {}
    /\ area_regions = <<>>

\* values common to every initial state
InitRest ==
    /\ LinesLocalsUnset
    /\ pixels_to_mm_scale = <<0, 1>>
    /\ scale = <<0, 1>>
    /\ need_rotation = FALSE
    /\ use_portrait = FALSE
    /\ target = <<0, 0>>
    /\ join_arg = <<>>
    /\ path_arg = <<>>
    /\ regular_lines = <<>>
    /\ solid_lines = <<>>
    /\ joined = FALSE
    /\ iteration = 0
    /\ current_pos = <<0, 0>>
    /\ ordered_lines = <<>>
    /\ remaining = <<>>
    /\ gcode = <<>>
    /\ total_draw_dist = 0
    /\ total_travel_dist = 0
    /\ exit_status = -1

(* The joiner followed by the sequencer, on tagged segments in millimetres *)
JoinTolerances == {1, 4}
MinLengths == {4, 6}

InitJoin ==
    /\ pc = "join"
    /\ \E t \in JoinTolerances, m \in MinLengths :
          cfg = [DefaultCfg EXCEPT !.join_tolerance = t, !.min_line_length = m]
    /\ lines \in SeqsOf(Tag(Sides, "regular") \cup Tag(Hatches, "solid"),
                         0, MaxLines)
    /\ den = 1
    /\ input_exists = TRUE
    /\ img_shape = <<0, 0>>
    /\ detected = <<>>
    /\ InitRest
    /\ NoImage
    /\ SolidIdle
    /\ HatchIdle

NextJoin ==
    \/ JoinStart
    \/ JoinScan
    \/ JoinFinish
    \/ OptStart
    \/ OptStep
    \/ OptFinish

SpecJoin == InitJoin /\ [][NextJoin]_vars

(* The joiner alone, on strokes only, run to its return; the minimum length *)
(* is longer than the whole ring, so that the run returns no line           *)
\* the sides of the rectangle taken once round, and one of them reversed
Ring ==
    {<<<<0, 0>>, <<3, 0>>>>, <<<<3, 0>>, <<3, 4>>>>, <<<<3, 4>>, <<0, 4>>>>,
     <<<<0, 4>>, <<0, 0>>>>, <<<<3, 4>>, <<3, 0>>>>}

InitJoinOnly ==
    /\ pc = "join"
    /\ \E t \in JoinTolerances :
          cfg = [DefaultCfg EXCEPT !.join_tolerance = t,
                                   !.min_line_length = 100]
    /\ lines \in SeqsOf(Tag(Ring, "regular"), 0, MaxLines)
    /\ den = 1
    /\ input_exists = TRUE
    /\ img_shape = <<0, 0>>
    /\ detected = <<>>
    /\ InitRest
    /\ NoImage
    /\ SolidIdle
    /\ HatchIdle

NextJoinOnly ==
    \/ JoinStart
    \/ JoinScan
    \/ JoinFinish

\* the run is not suspended for ever while a statement is left to execute
SpecJoinFair == InitJoinOnly /\ [][NextJoinOnly]_vars /\ WF_vars(NextJoinOnly)

(* The sequencer alone, on two- and three-vertex polylines *)
Margins == {0, 3}

Bends(P) == {b \in P \X P \X P : b[1] # b[2] /\ b[2] # b[3] /\ b[1] # b[3]}

InitPath ==
    /\ pc = "optimize"
    /\ \E m \in Margins : cfg = [DefaultCfg EXCEPT !.margin = m]
    /\ lines \in SeqsOf(Segments(Triangle) \cup Bends(Triangle), 0, MaxLines)
    /\ den = 1
    /\ input_exists = TRUE
    /\ img_shape = <<0, 0>>
    /\ detected = <<>>
    /\ InitRest
    /\ NoImage
    /\ SolidIdle
    /\ HatchIdle

NextPath ==
    \/ OptStart
    \/ OptStep
    \/ OptFinish

SpecPath == InitPath /\ [][NextPath]_vars

(* The emitter alone; den = 3 puts the vertices on thirds of a millimetre *)
\* <<z_up, z_down, fill_solid_areas>>
PenSetups == {<<3, 0, FALSE>>, <<5, 1, TRUE>>}
GcodeDens == {1, 3}

InitGcode ==
    /\ pc = "generate"
    /\ \E z \in PenSetups :
          cfg = [DefaultCfg EXCEPT !.z_up = z[1], !.z_down = z[2],
                                   !.fill_solid_areas = z[3]]
    /\ lines \in SeqsOf(Segments(Triangle) \cup Bends(Triangle), 0, MaxLines)
    /\ den \in GcodeDens
    /\ input_exists = TRUE
    /\ img_shape = <<0, 0>>
    /\ detected = <<>>
    /\ InitRest
    /\ NoImage
    /\ SolidIdle
    /\ HatchIdle

NextGcode == GenerateGcode

SpecGcode == InitGcode /\ [][NextGcode]_vars

(* scale_to_a4 and convert's scale, on every paper size and orientation *)
ScaleMargins == {0, 1, 10}

\* <<img_height, img_width>>
ScaleShapes ==
    {<<600, 800>>, <<800, 600>>, <<100, 100>>, <<100, 105>>,
     <<295, 208>>, <<3, 400>>}

\* the corners of the image rectangle and an inner point
ImagePoints(shape) ==
    {<<0, 0>>, <<shape[2], 0>>, <<0, shape[1]>>, <<shape[2], shape[1]>>, <<1, 2>>}

InitScale ==
    /\ pc = "load"
    /\ \E ps \in DOMAIN PaperSizes, o \in Orientations, m \in ScaleMargins :
          cfg = [DefaultCfg EXCEPT !.paper_size = ps, !.orientation = o,
                                   !.margin = m]
    /\ img_shape \in ScaleShapes
    /\ \E l \in ImagePoints(img_shape) \X ImagePoints(img_shape) :
          detected = <<[points |-> l, type |-> "regular"]>>
    /\ lines = <<>>
    /\ den = 1
    /\ input_exists = TRUE
    /\ InitRest
    /\ NoImage
    /\ SolidIdle
    /\ HatchIdle

NextScale ==
    \/ ConvertLoad
    \/ DetectLines
    \/ ScaleToA4

SpecScale == InitScale /\ [][NextScale]_vars

(* The whole run of main.  The images are sized so that the scale is 1/2, 1 *)
(* or 2 and the sheet coordinates stay small.                               *)
MaxDetected == 2

Setups ==
    {[paper_size |-> "A4", margin |-> 1, shape |-> <<590, 416>>],
     [paper_size |-> "A4", margin |-> 1, shape |-> <<416, 590>>],
     [paper_size |-> "A4", margin |-> 1, shape |-> <<208, 208>>],
     [paper_size |-> "A6", margin |-> 0, shape |-> <<74, 35>>]}

Init ==
    /\ pc = "main"
    /\ \E su \in Setups, o \in Orientations,
          t \in JoinTolerances, m \in MinLengths :
          /\ cfg = [DefaultCfg EXCEPT !.paper_size = su.paper_size,
                                      !.margin = su.margin,
                                      !.orientation = o,
                                      !.join_tolerance = t,
                                      !.min_line_length = m]
          /\ img_shape = su.shape
    /\ \/ /\ input_exists = TRUE
          /\ detected \in SeqsOf(Tag(Segments(Triangle), "regular")
                                   \cup Tag(Hatches, "solid"), 0, MaxDetected)
       \/ /\ input_exists = FALSE
          /\ detected = <<>>
    /\ lines = <<>>
    /\ den = 1
    /\ InitRest
    /\ NoImage
    /\ SolidIdle
    /\ HatchIdle

Next ==
    \/ MainStart
    \/ ConvertLoad
    \/ DetectLines
    \/ ScaleToA4
    \/ JoinStart
    \/ JoinScan
    \/ JoinFinish
    \/ OptStart
    \/ OptStep
    \/ OptFinish
    \/ GenerateGcode
    \/ ConvertReturn

Spec == Init /\ [][Next]_vars


(* detect_solid_areas on the contours of cv2.findContours(RETR_CCOMP): a    *)
(* two-level forest, listed in any index order.                             *)
MaxContours == 3

\* the parent of each of n contours: a contour is an outer boundary (-1) or
\* the hole of an outer boundary
ParentMaps(n) ==
    {par \in [0..(n - 1) -> -1..(n - 1)] :
        \A i \in 0..(n - 1) :
            /\ par[i] # i
            /\ par[i] # -1 => par[par[i]] = -1}

\* the hierarchy rows <<next, prev, first_child, parent>> of a parent map,
\* siblings chained in index order
HierarchyOf(par) ==
    [i \in DOMAIN par |->
        << LeastOf({j \in DOMAIN par : j > i /\ par[j] = par[i]}),
           GreatestOf({j \in DOMAIN par : j < i /\ par[j] = par[i]}),
           LeastOf({j \in DOMAIN par : par[j] = i}),
           par[i] >>]

Shape(a, bw, bh, ha, p) ==
    [area |-> a, w |-> bw, h |-> bh, hull_area |-> ha, perimeter |-> p]

\* filled squares of side 20, 19 and 10, a hollow shape and a crescent
ForestShapes ==
    {Shape(400, 20, 20, 400, 80), Shape(361, 19, 19, 361, 76),
     Shape(100, 10, 10, 100, 40), Shape(100, 20, 20, 400, 40),
     Shape(600, 60, 60, 3000, 300)}

InitSolid ==
    /\ pc = "solid"
    /\ lines = <<>>
    /\ den = 1
    /\ input_exists = TRUE
    /\ img_shape = <<0, 0>>
    /\ detected = <<>>
    /\ InitRest
    /\ NoImage
    /\ SolidLocalsUnset
    /\ HatchIdle

InitForest ==
    /\ InitSolid
    /\ cfg = DefaultCfg
    /\ \E n \in 0..MaxContours :
          /\ contours \in [0..(n - 1) -> ForestShapes]
          /\ \E par \in ParentMaps(n) : hierarchy = HierarchyOf(par)

NextSolid ==
    \/ DetectSolidStart
    \/ ClassifyContour
    \/ DetectSolidReturn

SpecForest == InitForest /\ [][NextSolid]_vars

(* detect_solid_areas on one outer boundary (index 0) and its one or two    *)
(* holes, the measures of the boundary on both sides of every threshold.    *)
ParentAreas == {60, 400, 600}
ParentHullAreas == {100, 600, 1600}
ParentPerimeters == {80, 300, 1000}
ParentBoxes == {<<40, 40>>, <<30, 10>>}

\* the outer boundaries: the area within the hull, the hull within the box
ParentShapes ==
    {c \in {Shape(a, b[1], b[2], ha, p) :
                a \in ParentAreas, b \in ParentBoxes,
                ha \in ParentHullAreas, p \in ParentPerimeters} :
        c.area <= c.hull_area /\ c.hull_area <= c.w * c.h}

\* a small and a large hole
HoleShapes == {Shape(20, 5, 5, 20, 18), Shape(361, 19, 19, 361, 76)}

InitParent ==
    /\ InitSolid
    /\ cfg = DefaultCfg
    /\ \E n \in 2..3 :
          /\ contours \in {cs \in [0..(n - 1) -> ParentShapes \cup HoleShapes] :
                              /\ cs[0] \in ParentShapes
                              /\ \A j \in 1..(n - 1) : cs[j] \in HoleShapes}
          /\ hierarchy = HierarchyOf([i \in 0..(n - 1) |->
                                         IF i = 0 THEN -1 ELSE 0])
    /\ ChildrenArea(hierarchy[0][3], contours, hierarchy) <= contours[0].area

SpecParent == InitParent /\ [][NextSolid]_vars

(* detect_solid_areas on every combination of a few measured scalars,      *)
(* zeros included, for the contour at index 0.  Index 1 is a filled square  *)
(* listed after it, or its only hole.  (cv2.boundingRect gives a box of at  *)
(* least 1 x 1 for a traced contour; the empty box is there for the         *)
(* fallback of line 128.)                                                   *)
ScalarAreas == {0, 1, 600}
ScalarHullAreas == {0, 1, 600}
ScalarPerimeters == {0, 4, 198, 1000}
ScalarBoxes == {<<0, 0>>, <<1, 1>>, <<100, 1>>, <<1, 100>>, <<30, 30>>}
MinSolidAreas == {1, 100, 1000}

ScalarShapes ==
    {Shape(a, b[1], b[2], ha, p) :
        a \in ScalarAreas, b \in ScalarBoxes,
        ha \in ScalarHullAreas, p \in ScalarPerimeters}

\* a filled square of side 40
Square == Shape(1600, 40, 40, 1600, 160)

\* a one-pixel hole and a 5 x 5 hole
ScalarHoles == {Shape(0, 1, 1, 0, 0), Shape(20, 5, 5, 20, 18)}

InitScalar ==
    /\ InitSolid
    /\ \E m \in MinSolidAreas : cfg = [DefaultCfg EXCEPT !.min_solid_area = m]
    /\ \E x \in ScalarShapes :
          \/ /\ contours = [i \in 0..1 |-> IF i = 0 THEN x ELSE Square]
             /\ hierarchy = HierarchyOf([i \in 0..1 |-> -1])
          \/ /\ \E z \in ScalarHoles :
                   contours = [i \in 0..1 |-> IF i = 0 THEN x ELSE z]
             /\ hierarchy = HierarchyOf([i \in 0..1 |-> IF i = 0 THEN -1 ELSE 0])

SpecScalar == InitScalar /\ [][NextSolid]_vars

(* generate_hatch_lines on the rectangles of a small image, whole or with   *)
(* a one-pixel hole, hatched along the rows (0 degrees) or the columns (90) *)
\* <<height, width>> of the image
HatchShapes == {<<3, 5>>, <<5, 3>>}
HatchAngles == {0, 90}
HatchSpacings == {1, 2}

Rect(x0, x1, y0, y1) == (x0..x1) \X (y0..y1)

\* the drawn contours: every rectangle of the image, and every rectangle
\* with one of its inner pixels as its hole
HatchRegions(shape) ==
    LET rects == {r \in (0..(shape[2] - 1)) \X (0..(shape[2] - 1))
                        \X (0..(shape[1] - 1)) \X (0..(shape[1] - 1)) :
                     r[1] <= r[2] /\ r[3] <= r[4]}
    IN  {[fill |-> Rect(r[1], r[2], r[3], r[4]), holes |-> {}] : r \in rects}
        \cup UNION {{[fill |-> Rect(r[1], r[2], r[3], r[4]), holes |-> {p}] :
                        p \in Rect(r[1] + 1, r[2] - 1, r[3] + 1, r[4] - 1)} :
                     r \in rects}

InitHatch ==
    /\ pc = "hatch"
    /\ \E a \in HatchAngles, sp \in HatchSpacings :
          cfg = [DefaultCfg EXCEPT !.fill_solid_areas = TRUE,
                                   !.hatch_angle = a,
                                   !.hatch_spacing_pixels = sp]
    /\ img_shape \in HatchShapes
    /\ hatch_region \in HatchRegions(img_shape)
    /\ HatchLocalsUnset
    /\ lines = <<>>
    /\ den = 1
    /\ input_exists = TRUE
    /\ detected = <<>>
    /\ InitRest
    /\ NoImage
    /\ SolidIdle

NextHatch ==
    \/ HatchStart
    \/ HatchThinRow
    \/ HatchThinColumn
    \/ HatchOffsetLine
    \/ HatchReturn

SpecHatch == InitHatch /\ [][NextHatch]_vars

(* generate_hatch_lines on thin shapes: one or two pixel rows at least nine *)
(* pixels wide in a 10x3 image, and the same shapes turned into columns     *)
ThinRuns == {0..8, 1..9}
ThinRows == ThinRuns \cup {2..5, {0, 8}, {4}}

RowAt(xs, y) == {<<x, y>> : x \in xs}

\* a full run alone, or a full run with any row above or below it
ThinFills ==
    {RowAt(a, y) : a \in ThinRuns, y \in 0..2}
    \cup {RowAt(r[1], y) \cup RowAt(r[2], y + 1) :
             r \in (ThinRuns \X ThinRows) \cup (ThinRows \X ThinRuns),
             y \in 0..1}

Transposed(S) == {<<p[2], p[1]>> : p \in S}

InitThin ==
    /\ pc = "hatch"
    /\ \E a \in {0, 45} :
          cfg = [DefaultCfg EXCEPT !.fill_solid_areas = TRUE, !.hatch_angle = a]
    /\ \E f \in ThinFills :
          \/ /\ img_shape = <<3, 10>>
             /\ hatch_region = [fill |-> f, holes |-> {}]
          \/ /\ img_shape = <<10, 3>>
             /\ hatch_region = [fill |-> Transposed(f), holes |-> {}]
    /\ HatchLocalsUnset
    /\ lines = <<>>
    /\ den = 1
    /\ input_exists = TRUE
    /\ detected = <<>>
    /\ InitRest
    /\ NoImage
    /\ SolidIdle

NextThin ==
    \/ HatchStart
    \/ HatchThinRow
    \/ HatchThinColumn
    \/ HatchReturn

SpecThin == InitThin /\ [][NextThin]_vars

(* generate_hatch_lines with corner lines: an 11x11 square at the left edge *)
(* of a 50x20 image, hatched at the angles of the 3-4-5 triangle            *)
CornerAngles == {37, 53}
CornerSquares == {Rect(0, 10, y, y + 10) : y \in {4, 5}}

InitCorner ==
    /\ pc = "hatch"
    /\ \E a \in CornerAngles, sp \in HatchSpacings :
          cfg = [DefaultCfg EXCEPT !.fill_solid_areas = TRUE,
                                   !.hatch_angle = a,
                                   !.hatch_spacing_pixels = sp]
    /\ img_shape = <<20, 50>>
    /\ \E f \in CornerSquares : hatch_region = [fill |-> f, holes |-> {}]
    /\ HatchLocalsUnset
    /\ lines = <<>>
    /\ den = 1
    /\ input_exists = TRUE
    /\ detected = <<>>
    /\ InitRest
    /\ NoImage
    /\ SolidIdle

NextCorner ==
    \/ HatchStart
    \/ HatchOffsetLine
    \/ HatchCornersBegin
    \/ HatchCornerLine
    \/ HatchReturn

SpecCorner == InitCorner /\ [][NextCorner]_vars

(* detect_lines on small images whose solid areas are found with            *)
(* --min-solid-area 4: a frame around a two-pixel dash, a horizontal and a  *)
(* vertical bar, a bar and a square, and a dash too small to be a solid     *)
(* area                                                                     *)
DetectAngles == {0, 90, 37}

\* the frame: the outer contour encloses Rect(0, 9, 0, 8); the contour of
\* the hole runs over the frame's pixels next to the hole
Frame == [fill |-> Rect(0, 9, 0, 8),
          holes |-> Rect(2, 7, 2, 6) \ {<<2, 2>>, <<7, 2>>, <<2, 6>>, <<7, 6>>}]
Dash == {<<4, 4>>, <<5, 4>>}
RowBar == [fill |-> Rect(0, 4, 0, 0), holes |-> {}]
ColumnBar == [fill |-> Rect(6, 6, 1, 6), holes |-> {}]
Block == [fill |-> Rect(3, 6, 3, 6), holes |-> {}]

DetectImages ==
    {[shape |-> <<9, 10>>,
      img |-> (Frame.fill \ Rect(3, 6, 3, 5)) \cup Dash,
      areas |-> <<Frame>>],
     [shape |-> <<7, 7>>, img |-> RowBar.fill \cup ColumnBar.fill,
      areas |-> <<RowBar, ColumnBar>>],
     [shape |-> <<7, 7>>, img |-> RowBar.fill \cup Block.fill,
      areas |-> <<RowBar, Block>>],
     [shape |-> <<7, 7>>, img |-> RowBar.fill \cup Block.fill,
      areas |-> <<Block, RowBar>>],
     [shape |-> <<3, 5>>, img |-> Rect(1, 3, 1, 1), areas |-> <<>>]}

InitDetect ==
    /\ pc = "detect_lines"
    /\ \E a \in DetectAngles, sp \in HatchSpacings, fill \in BOOLEAN,
          cross \in BOOLEAN :
          cfg = [DefaultCfg EXCEPT !.fill_solid_areas = fill,
                                   !.min_solid_area = 4,
                                   !.crosshatch = cross,
                                   !.hatch_angle = a,
                                   !.hatch_spacing_pixels = sp]
    /\ \E im \in DetectImages :
          /\ img_shape = im.shape
          /\ binary_img = im.img
          /\ area_regions = im.areas
    /\ HatchIdle
    /\ lines = <<>>
    /\ den = 1
    /\ input_exists = TRUE
    /\ detected = <<>>
    /\ InitRest
    /\ SolidIdle

NextDetect ==
    \/ DetectLinesStart
    \/ DetectHatchCall
    \/ HatchStart
    \/ HatchThinRow
    \/ HatchThinColumn
    \/ HatchOffsetLine
    \/ HatchCornersBegin
    \/ HatchCornerLine
    \/ HatchReturn
    \/ DetectHatchExtend
    \/ DetectSecondPass
    \/ DetectHatchEnd
    \/ DetectOutlines
    \/ DetectLinesReturn

SpecDetect == InitDetect /\ [][NextDetect]_vars

-----------------------------------------------------------------------------
(* Vocabulary of the properties *)

Range(s) == {s[i] : i \in DOMAIN s}

\* the polylines of one kind among tagged lines, in order
RECURSIVE LinesOfKind(_, _)
LinesOfKind(tagged, kind) ==
    IF tagged = <<>> THEN <<>>
    ELSE IF Head(tagged).type = kind
         THEN <<Head(tagged).points>> \o LinesOfKind(Tail(tagged), kind)
         ELSE LinesOfKind(Tail(tagged), kind)

\* the polylines of length at least m, in order
RECURSIVE KeepLong(_, _)
KeepLong(ls, m) ==
    IF ls = <<>> THEN <<>>
    ELSE IF LineLength(Head(ls)) < m THEN KeepLong(Tail(ls), m)
         ELSE <<Head(ls)>> \o KeepLong(Tail(ls), m)

\* line is a concatenation of polylines of the set S, each forward or reversed
RECURSIVE IsChainOf(_, _)
IsChainOf(line, S) ==
    \/ line = <<>>
    \/ \E s \in S \cup {Reverse(x) : x \in S} :
          /\ Len(s) > 0
          /\ Len(s) <= Len(line)
          /\ SubSeq(line, 1, Len(s)) = s
          /\ IsChainOf(SubSeq(line, Len(s) + 1, Len(line)), S)

VertexCount(ls) == SumSeq([i \in 1..Len(ls) |-> Len(ls[i])])

\* out holds exactly the polylines of in, reordered, each forward or reversed
IsReorderingOf(out, in) ==
    /\ Len(out) = Len(in)
    /\ \E f \in Permutations(1..Len(in)) :
          \A i \in 1..Len(in) : out[i] = in[f[i]] \/ out[i] = Reverse(in[f[i]])

\* the smallest squared distance between an endpoint of a and an endpoint of b
MinEndpointDist2(a, b) ==
    Min(Min(Norm2(a[Len(a)], b[1]), Norm2(a[Len(a)], b[Len(b)])),
        Min(Norm2(a[1], b[1]), Norm2(a[1], b[Len(b)])))

Tol == cfg.join_tolerance * den
MinLen == cfg.min_line_length * den
Strokes == LinesOfKind(join_arg, "regular")
Fills == LinesOfKind(join_arg, "solid")

-----------------------------------------------------------------------------
(* Properties *)

\* C1: what optimize_path returns is a permutation of exactly its input
\* polylines, each unchanged or with its vertex order reversed.
C1_SequencerCompleteness ==
    pc = "generate" => IsReorderingOf(lines, path_arg)

C1_Witness ==
    /\ pc = "generate"
    /\ Len(lines) = 3
    /\ Len(lines[1]) = 3
    /\ lines[1] = Reverse(path_arg[3])
    /\ lines[2] = path_arg[1]

\* C2: join_nearby_endpoints never concatenates a hatch-or-outline polyline
\* with anything: the joined strokes are chains of input strokes holding
\* exactly the input strokes' vertices, the output is the kept strokes
\* followed by the hatch-or-outline polylines that pass the length filter,
\* each with exactly its input vertex sequence.
C2_TagIsolation ==
    pc = "optimize" =>
        /\ \A i \in 1..Len(regular_lines) :
              /\ regular_lines[i] # <<>>
              /\ IsChainOf(regular_lines[i], Range(Strokes))
        /\ VertexCount(regular_lines) = VertexCount(Strokes)
        /\ \E k \in 0..Len(lines) :
              /\ SubSeq(lines, 1, k) = KeepLong(regular_lines, MinLen)
              /\ SubSeq(lines, k + 1, Len(lines)) = KeepLong(Fills, MinLen)

C2_Witness ==
    /\ pc = "optimize"
    /\ Len(Strokes) = 2
    /\ Len(regular_lines) = 1
    /\ Len(Fills) = 1
    /\ Norm2(Fills[1][1], Strokes[1][1]) = 0
    /\ Fills[1] \in Range(lines)
    /\ regular_lines[1] \in Range(lines)

\* C3: given exactly two strokes, the joiner merges them into one polyline
\* when the smallest endpoint-to-endpoint distance is below the tolerance
\* and leaves them as they are when it is above.
C3_JoinerBoundary ==
    (pc = "optimize" /\ Len(Strokes) = 2) =>
        LET d2 == MinEndpointDist2(Strokes[1], Strokes[2])
        IN  /\ d2 < Tol * Tol =>
                /\ Len(regular_lines) = 1
                /\ Len(regular_lines[1]) = Len(Strokes[1]) + Len(Strokes[2])
            /\ d2 > Tol * Tol => regular_lines = Strokes

C3_Witness ==
    /\ pc = "optimize"
    /\ Len(Strokes) = 2
    /\ MinEndpointDist2(Strokes[1], Strokes[2]) = 9
    /\ Tol = 4
    /\ Len(regular_lines) = 1

\* C4: the length filter runs after joining and on both kinds: the result
\* of join_nearby_endpoints is exactly the post-join polylines (joined
\* strokes, then hatch-or-outline) of length >= m, and every polyline of
\* the Toolpath has length >= m.
C4_LengthFilter ==
    /\ pc = "optimize" => lines = KeepLong(regular_lines \o Fills, MinLen)
    /\ pc \in {"optimize", "opt_loop", "generate"} =>
          \A i \in 1..Len(lines) : LineLength(lines[i]) >= MinLen
    /\ pc = "opt_loop" =>
          \A i \in 1..Len(ordered_lines) : LineLength(ordered_lines[i]) >= MinLen

C4_Witness ==
    /\ pc = "generate"
    /\ Len(lines) = 1
    /\ Len(lines[1]) = 4
    /\ \A i \in 1..Len(Strokes) : LineLength(Strokes[i]) < MinLen
    /\ \E i \in 1..Len(Fills) : LineLength(Fills[i]) < MinLen

\* the program without its comment and blank lines
Cmds == SelectSeq(gcode, LAMBDA r : r.cmd \notin {";", ""})

HasZ(r) == "z" \in DOMAIN r
HasXY(r) == "x" \in DOMAIN r

\* the polyline lengths of the Toolpath, summed
DrawnLength(ls) == SumSeq([i \in 1..Len(ls) |-> LineLength(ls[i])])

\* C5: a run that returns exit status 0 has written a program that draws at
\* least one polyline, and a run whose polyline set is empty ends with exit
\* status 1.
C5_NoSilentEmptyProgram ==
    /\ exit_status = 0 =>
          \E i \in 1..Len(gcode) : HasZ(gcode[i]) /\ gcode[i].z = cfg.z_down
    /\ (pc = "done" /\ lines = <<>>) => exit_status = 1

\* C6: the total drawing distance of generate_gcode is the sum over the
\* polylines of the distances between consecutive vertices.
C6_DrawDistance ==
    pc = "generated" => total_draw_dist = DrawnLength(lines)

\* index of the last command before the block of polyline i
BlockOffset(i) == 4 + SumSeq([j \in 1..(i - 1) |-> Len(lines[j]) + 2])

\* C7: the program is G21, G90, pen up, move to X0 Y0; per polyline, in
\* Toolpath order, one travel to its first vertex, one pen-down, one G1 per
\* remaining vertex in order, one pen-up; the return to origin; M2 last.
C7_ProgramStructure ==
    pc = "generated" =>
        LET n == Len(Cmds)
        IN  /\ n = 4 + VertexCount(lines) + 2 * Len(lines) + 3
            /\ Cmds[1] = [cmd |-> "G21"]
            /\ Cmds[2] = [cmd |-> "G90"]
            /\ Cmds[3] = [cmd |-> "G0", z |-> cfg.z_up]
            /\ Cmds[4] = [cmd |-> "G0", x |-> 0, y |-> 0]
            /\ \A i \in 1..Len(lines) :
                  LET o == BlockOffset(i)
                      line == lines[i]
                  IN  /\ Cmds[o + 1] = [cmd |-> "G0",
                                        x |-> Fmt3(line[1][1], den),
                                        y |-> Fmt3(line[1][2], den),
                                        f |-> cfg.travel_rate]
                      /\ Cmds[o + 2] = [cmd |-> "G0", z |-> cfg.z_down]
                      /\ \A k \in 2..Len(line) :
                            Cmds[o + 1 + k] = [cmd |-> "G1",
                                               x |-> Fmt3(line[k][1], den),
                                               y |-> Fmt3(line[k][2], den),
                                               f |-> cfg.feed_rate]
                      /\ Cmds[o + Len(line) + 2] = [cmd |-> "G0", z |-> cfg.z_up]
            /\ Cmds[n - 2] = [cmd |-> "G0", x |-> 0, y |-> 0]
            /\ Cmds[n - 1] = [cmd |-> "G0", z |-> cfg.z_up]
            /\ gcode[Len(gcode)] = [cmd |-> "M2"]

C7_Witness ==
    /\ pc = "generated"
    /\ den = 3
    /\ Len(lines) = 2
    /\ Len(lines[1]) = 3
    /\ Len(lines[2]) = 2
    /\ lines[1][1] # lines[2][1]

\* the Z commands of the program, in order
ZCmds == SelectSeq(gcode, HasZ)

IsDown(r) == r.z = cfg.z_down

SetMax(S) == CHOOSE m \in S : \A k \in S : m >= k

\* the pen state in which command i is issued
PenAt(i) ==
    LET before == {j \in 1..(i - 1) : HasZ(gcode[j])}
    IN  IF before = {} THEN "unknown"
        ELSE IF IsDown(gcode[SetMax(before)]) THEN "down" ELSE "up"

DrawsPenDown == \A i \in 1..Len(gcode) : gcode[i].cmd = "G1" => PenAt(i) = "down"

TravelsPenUp ==
    \A i \in 1..Len(gcode) :
        (gcode[i].cmd = "G0" /\ HasXY(gcode[i])) => PenAt(i) = "up"

EndsPenUp == gcode[Len(gcode)].cmd = "M2" /\ PenAt(Len(gcode)) = "up"

\* Z commands 1..n alternate, the first being a pen-up
Alternate(n) ==
    /\ n >= 1
    /\ ~IsDown(ZCmds[1])
    /\ \A k \in 1..(n - 1) : IsDown(ZCmds[k]) # IsDown(ZCmds[k + 1])

\* C8 as claimed: drawing moves with the pen down, X/Y travel with the pen
\* up, pen-down and pen-up commands strictly alternating from a pen-up, and
\* the pen up at M2.
C8_StrictAlternation ==
    pc = "generated" =>
        /\ DrawsPenDown
        /\ TravelsPenUp
        /\ Alternate(Len(ZCmds))
        /\ EndsPenUp

\* C8 as amended: the same, the alternation holding for all Z commands but
\* the last: the footer repeats the pen-up after the return to origin.
C8_PenSafety ==
    pc = "generated" =>
        /\ DrawsPenDown
        /\ TravelsPenUp
        /\ Len(ZCmds) = 2 * Len(lines) + 2
        /\ Alternate(Len(ZCmds) - 1)
        /\ ~IsDown(ZCmds[Len(ZCmds)])
        /\ EndsPenUp

C8_Witness ==
    /\ pc = "generated"
    /\ Len(lines) = 3
    /\ Len(ZCmds) = 8
    /\ \E i \in 1..Len(gcode) : gcode[i].cmd = "G1" /\ PenAt(i) = "down"
    /\ cfg.z_down = 1

\* scale_to_a4's view of point k of line i: the pixel point and its sheet point
PixelPoint(i, k) == detected[i].points[k]
SheetPoint(i, k) == lines[i].points[k]
PointIds == {ik \in (1..Len(lines)) \X (1..2) : ik[2] <= Len(lines[ik[1]].points)}

\* sc = min(target[1] / w, target[2] / h)
IsFitScale(sc, w, h) ==
    /\ sc[1] * w <= target[1] * sc[2]
    /\ sc[1] * h <= target[2] * sc[2]
    /\ \/ sc[1] * w = target[1] * sc[2]
       \/ sc[1] * h = target[2] * sc[2]

\* every sheet point lies in the usable rectangle
InsideUsable ==
    \A ik \in PointIds :
        LET q == SheetPoint(ik[1], ik[2])
        IN  /\ cfg.margin * den <= q[1]
            /\ q[1] <= (cfg.margin + target[1]) * den
            /\ cfg.margin * den <= q[2]
            /\ q[2] <= (cfg.margin + target[2]) * den

\* the pixel point as scale_to_a4 scales it: rotated when a rotation is made
Turned(p) == IF need_rotation THEN <<img_shape[1] - p[2], p[1]>> ELSE p
TurnedWidth == IF need_rotation THEN img_shape[1] ELSE img_shape[2]
TurnedHeight == IF need_rotation THEN img_shape[2] ELSE img_shape[1]

\* opposite edges of the image (of width w, height h, points seen through
\* view) land at equal insets from the opposite edges of the usable rectangle
Centered(view(_), w, h) ==
    \A a \in PointIds, b \in PointIds :
        LET pa == view(PixelPoint(a[1], a[2]))
            pb == view(PixelPoint(b[1], b[2]))
            qa == SheetPoint(a[1], a[2])
            qb == SheetPoint(b[1], b[2])
        IN  /\ (pa[1] = 0 /\ pb[1] = w) =>
                  qa[1] - cfg.margin * den = (cfg.margin + target[1]) * den - qb[1]
            /\ (pa[2] = 0 /\ pb[2] = h) =>
                  (cfg.margin + target[2]) * den - qa[2] = qb[2] - cfg.margin * den

\* a smaller Y (through view) gives a larger sheet Y
YFlipped(view(_)) ==
    \A a \in PointIds, b \in PointIds :
        view(PixelPoint(a[1], a[2]))[2] < view(PixelPoint(b[1], b[2]))[2]
            => SheetPoint(a[1], a[2])[2] > SheetPoint(b[1], b[2])[2]

Same(p) == p

\* C9 as claimed: with W x H the image, scale = min(target-width / W,
\* target-height / H), the image rectangle lands inside the usable
\* rectangle, centered, and a smaller pixel Y gives a larger sheet Y.
C9_FitAsClaimed ==
    pc = "join" =>
        /\ IsFitScale(scale, img_shape[2], img_shape[1])
        /\ InsideUsable
        /\ Centered(Same, img_shape[2], img_shape[1])
        /\ YFlipped(Same)

\* C9 as amended: the same for the image as scale_to_a4 scales it, i.e.
\* after the 90 degree rotation (points turned, dimensions swapped) when
\* one is applied.
C9_FitAfterRotation ==
    pc = "join" =>
        /\ IsFitScale(scale, TurnedWidth, TurnedHeight)
        /\ InsideUsable
        /\ Centered(Turned, TurnedWidth, TurnedHeight)
        /\ YFlipped(Turned)

C9_Witness ==
    /\ pc = "join"
    /\ need_rotation
    /\ cfg.orientation = "portrait"
    /\ img_shape = <<600, 800>>
    /\ PixelPoint(1, 1) = <<0, 0>>
    /\ PixelPoint(1, 2) = <<800, 600>>
    /\ scale = <<26, 75>>

\* C10: the scale convert uses for the hatch spacing is the scale that
\* scale_to_a4 applies to the geometry.
C10_ScaleAgreement ==
    pc = "join" => pixels_to_mm_scale = scale

\* the sheet point (numerators over den) of the point p of an image of width
\* w and height h under the scale and target recorded by scale_to_a4
SheetOf(p, w, h) ==
    << 2 * p[1] * scale[1] + (2 * cfg.margin + target[1]) * scale[2]
          - w * scale[1],
       2 * (h - p[2]) * scale[1] + (2 * cfg.margin + target[2]) * scale[2]
          - h * scale[1] >>

\* the fixed orientation is the opposite of / the same as the image's own
FixedOpposite ==
    \/ cfg.orientation = "portrait" /\ img_shape[2] > img_shape[1]
    \/ cfg.orientation = "landscape" /\ img_shape[2] < img_shape[1]
FixedAgrees ==
    \/ cfg.orientation = "portrait" /\ img_shape[2] < img_shape[1]
    \/ cfg.orientation = "landscape" /\ img_shape[2] > img_shape[1]

\* C11: with a fixed orientation opposite to that of a non-square W x H
\* image, scale_to_a4 rotates: every point (x, y) is scaled as (H - y, x) in
\* an image of width H and height W, and the scale fits H x W.  With a fixed
\* orientation that agrees with the image, or a square image, it does not
\* rotate: every point is scaled as it is in the W x H image.
C11_RotationDecision ==
    pc = "join" =>
        LET H == img_shape[1]
            W == img_shape[2]
        IN  /\ FixedOpposite =>
                /\ need_rotation
                /\ IsFitScale(scale, H, W)
                /\ \A ik \in PointIds :
                      LET p == PixelPoint(ik[1], ik[2])
                      IN  SheetPoint(ik[1], ik[2])
                             = SheetOf(<<H - p[2], p[1]>>, H, W)
            /\ (FixedAgrees \/ W = H) =>
                /\ ~need_rotation
                /\ IsFitScale(scale, W, H)
                /\ \A ik \in PointIds :
                      SheetPoint(ik[1], ik[2])
                         = SheetOf(PixelPoint(ik[1], ik[2]), W, H)

C11_Witness ==
    /\ pc = "join"
    /\ cfg.orientation = "landscape"
    /\ cfg.paper_size = "A4"
    /\ cfg.margin = 10
    /\ img_shape = <<800, 600>>
    /\ need_rotation
    /\ PixelPoint(1, 1) = <<1, 2>>
    /\ PixelPoint(1, 2) = <<600, 800>>
    /\ SheetPoint(1, 1) # SheetOf(<<1, 2>>, 600, 800)

\* detect_solid_areas' view of the contour forest
Regions == {solid_areas[k] : k \in 1..Len(solid_areas)}
ParentOf(i) == hierarchy[i][4]
HasChildren(i) == hierarchy[i][3] # -1
ChildrenOf(i) == {j \in DOMAIN contours : ParentOf(j) = i}

OuterParents == {i \in DOMAIN contours : HasChildren(i) /\ ParentOf(i) = -1}

\* (solidity > 0.4, compactness < 200, fillRatio > 0.15, thickness >= 0.15)
\* or (effectiveArea > 500, thickness > 1.5, compactness < 1500)
ParentRule(i) ==
    LET c == contours[i]
        sol == Solidity(c)
        comp == Compactness(c)
        th == Thickness(c)
        fill == FillRatio(i, contours, hierarchy)
    IN  \/ /\ 5 * sol[1] > 2 * sol[2]
           /\ comp[1] < 200 * comp[2]
           /\ 20 * fill[1] > 3 * fill[2]
           /\ 20 * th[1] >= 3 * th[2]
        \/ /\ EffectiveArea(c) > 500
           /\ 2 * th[1] > 3 * th[2]
           /\ comp[1] < 1500 * comp[2]

\* effectiveArea below the minimum and the bounding box not thin-but-long
PassedOver(i) ==
    LET c == contours[i]
    IN  /\ EffectiveArea(c) < cfg.min_solid_area
        /\ ~ ((c.w < 20 /\ c.h > 15) \/ (c.h < 20 /\ c.w > 15))

\* C14 as claimed: every contour with children and no parent is a region
\* if and only if the parent rule holds for it, and is otherwise marked a
\* rejected outline parent.
C14_ParentRuleAsClaimed ==
    pc = "solid_done" =>
        \A i \in OuterParents :
            /\ i \in Regions <=> ParentRule(i)
            /\ ~ParentRule(i) => i \in rejected_outline_parents

\* C14 as amended: the same for the contours with children and no parent that
\* the minimum-area rule does not pass over; those it passes over are
\* neither regions nor rejected outline parents.
C14_ParentRule ==
    pc = "solid_done" =>
        \A i \in OuterParents :
            IF PassedOver(i)
            THEN i \notin Regions /\ i \notin rejected_outline_parents
            ELSE /\ i \in Regions <=> ParentRule(i)
                 /\ i \in rejected_outline_parents <=> ~ParentRule(i)

C14_Witness ==
    /\ pc = "solid_done"
    /\ contours[0] = Shape(400, 40, 40, 600, 80)
    /\ ChildrenOf(0) = {1, 2}
    /\ contours[1].area + contours[2].area = 381
    /\ 0 \in rejected_outline_parents
    /\ Regions = {}

\* thin-but-long: w < 20 and h > 15, or h < 20 and w > 15
ThinButLong(i) ==
    LET c == contours[i]
    IN  (c.w < 20 /\ c.h > 15) \/ (c.h < 20 /\ c.w > 15)

\* a contour without children and without parent
Alone(i) == ~HasChildren(i) /\ ParentOf(i) = -1

\* solidity > 0.25 and thickness >= 0.15
SolidAndThick(i) ==
    LET sol == Solidity(contours[i])
        th == Thickness(contours[i])
    IN  4 * sol[1] > sol[2] /\ 20 * th[1] >= 3 * th[2]

\* C15: when detect_solid_areas returns, a contour with effectiveArea below
\* the minimum solid area and a bounding box that is not thin-but-long is
\* not a region, not a region parent and not a rejected outline parent; a
\* thin-but-long contour is classified whatever its area: alone, solid and
\* thick it is a region, an outer boundary with holes is a region or a
\* rejected outline parent.
C15_MinimumArea ==
    pc = "solid_done" =>
        \A i \in DOMAIN contours :
            /\ PassedOver(i) =>
                  /\ i \notin Regions
                  /\ i \notin parent_indices
                  /\ i \notin rejected_outline_parents
            /\ (ThinButLong(i) /\ Alone(i) /\ SolidAndThick(i))
                  => i \in Regions
            /\ (ThinButLong(i) /\ i \in OuterParents)
                  => i \in Regions \cup rejected_outline_parents

C15_Witness ==
    /\ pc = "solid_done"
    /\ cfg.min_solid_area = 1000
    /\ contours[0] = Shape(1, 100, 1, 1, 4)
    /\ contours[1] = Square
    /\ Alone(0)
    /\ Regions = {0, 1}

\* area 0, hull area 0, alone, a box 1 px tall and more than 15 px wide
Underscore(i) ==
    LET c == contours[i]
    IN  c.area = 0 /\ c.hull_area = 0 /\ Alone(i) /\ c.h = 1 /\ c.w > 15

\* C16: right after its turn of the loop an underscore contour has solidity
\* 1.0 and thickness min(w, h), and it is a region from then on, whatever
\* its perimeter and the minimum solid area.
C16_Underscore ==
    \A i \in DOMAIN contours :
        (Underscore(i) /\ pc \in {"solid_loop", "solid_done"} /\ ci > i) =>
            /\ i \in Regions
            /\ (pc = "solid_loop" /\ ci = i + 1) =>
                  /\ solidity = <<1, 1>>
                  /\ thickness = <<Min(contours[i].w, contours[i].h), 1>>

C16_Witness ==
    /\ pc = "solid_loop"
    /\ ci = 1
    /\ cfg.min_solid_area = 1000
    /\ contours[0] = Shape(0, 100, 1, 0, 1000)
    /\ Alone(0)
    /\ solid_areas = <<0>>
    /\ thickness = <<1, 1>>

\* C17: detect_solid_areas never leaves by a ZeroDivisionError.  Right after
\* the turn of a contour that is not passed over, solidity is 1.0 if its
\* hull area is 0 and its effectiveArea positive, 0.0 if both are 0, and
\* thickness is 0 if its area is positive and its perimeter 0.  Every
\* contour gets its turn: on return a contour that is alone, not passed
\* over, solid and thick is a region.
C17_NoZeroDivision ==
    /\ pc # "raised"
    /\ (pc = "solid_loop" /\ ci > 0 /\ ~PassedOver(ci - 1)) =>
          LET c == contours[ci - 1]
          IN  /\ (c.hull_area = 0 /\ EffectiveArea(c) > 0)
                    => solidity = <<1, 1>>
              /\ (c.hull_area = 0 /\ EffectiveArea(c) = 0)
                    => solidity = <<0, 1>>
              /\ (c.area > 0 /\ c.perimeter = 0 /\ solidity[1] > 0)
                    => thickness = <<0, 1>>
    /\ pc = "solid_done" =>
          /\ ci = Cardinality(DOMAIN contours)
          /\ \A i \in DOMAIN contours :
                (Alone(i) /\ ~PassedOver(i) /\ SolidAndThick(i))
                    => i \in Regions

C17_Witness ==
    /\ pc = "solid_done"
    /\ cfg.min_solid_area = 1
    /\ contours[0] = Shape(0, 1, 1, 0, 0)
    /\ contours[1] = Square
    /\ Alone(0)
    /\ solid_areas = <<0, 1>>

\* the filled mask of the region: inside the boundary, outside every hole
RegionMask == hatch_region.fill \ hatch_region.holes

\* the pixel e is a mask pixel or one of the eight neighbours of one
NearMask(e) ==
    \E p \in RegionMask : Abs(e[1] - p[1]) <= 1 /\ Abs(e[2] - p[2]) <= 1

\* C18: both endpoints of every segment in hatch_lines are pixels of the
\* image and at most one pixel away from a pixel of the region's filled
\* mask.
C18_HatchContainment ==
    \A n \in 1..Len(hatch_lines) :
        \A e \in {hatch_lines[n][1], hatch_lines[n][2]} :
            InImage(e, img_shape) /\ NearMask(e)

\* no stage of convert has run: the scale attribute, the mapping, the joiner,
\* the sequencer and the program are as they were when main began
NoGeometryWork ==
    /\ pixels_to_mm_scale = <<0, 1>>
    /\ lines = <<>>
    /\ scale = <<0, 1>> /\ target = <<0, 0>> /\ den = 1
    /\ ~need_rotation /\ ~use_portrait
    /\ join_arg = <<>> /\ ~joined /\ iteration = 0
    /\ regular_lines = <<>> /\ solid_lines = <<>>
    /\ path_arg = <<>> /\ ordered_lines = <<>> /\ remaining = <<>>
    /\ current_pos = <<0, 0>>

\* generate_gcode has not been called: no program was written and the
\* totals it accumulates were never set
NoProgramWritten ==
    gcode = <<>> /\ total_draw_dist = 0 /\ total_travel_dist = 0

\* C19: when the input file does not exist, main ends with exit status 1
\* without entering convert, with no geometry work done and no program
\* written; and whenever the exit status is 1, generate_gcode has not been
\* called.
C19_InputErrors ==
    /\ ~input_exists =>
          /\ pc \in {"main", "done"}
          /\ pc = "done" => exit_status = 1
          /\ NoGeometryWork
          /\ NoProgramWritten
    /\ exit_status = 1 => (pc = "done" /\ NoProgramWritten)

C19_Witness ==
    /\ ~input_exists
    /\ pc = "done"
    /\ exit_status = 1
    /\ NoGeometryWork
    /\ NoProgramWritten

\* a step that is one turn of the joiner's while loop
IsScanStep == pc = "join_loop" /\ iteration' # iteration

\* C21: join_nearby_endpoints terminates: the scan counter never passes
\* 100, a scan is made only while the previous one reported a merge, a scan
\* reports a merge exactly when it changed the stroke list, every such scan
\* leaves strictly fewer strokes, and the loop is eventually left.
C21_JoinTerminates ==
    /\ [](iteration <= MaxJoinIterations)
    /\ [][IsScanStep =>
             /\ joined
             /\ iteration' = iteration + 1
             /\ joined' <=> (regular_lines' # regular_lines)
             /\ joined' => Len(regular_lines') < Len(regular_lines)
             /\ ~joined' => pc' = "join_loop"]_vars
    /\ [][(pc = "join_loop" /\ ~joined) => pc' # "join_loop"]_vars
    /\ <>(pc \notin {"join", "join_loop"})

C21_Witness ==
    /\ pc = "optimize"
    /\ Len(Strokes) = 3
    /\ iteration = 3
    /\ ~joined
    /\ Len(regular_lines) = 1

\* the joiner's loop has ended, and not because of the cap
StoppedBeforeCap ==
    /\ \/ pc = "join_loop" /\ ~joined
       \/ pc = "optimize"
    /\ iteration < MaxJoinIterations

\* C22: when the joiner stops before the cap of 100 scans, no two distinct
\* strokes of its result (before the length filter) have a pair of
\* endpoints at a distance strictly below the join tolerance.
C22_JoinFixedPoint ==
    StoppedBeforeCap =>
        \A i, j \in 1..Len(regular_lines) :
            i # j =>
                MinEndpointDist2(regular_lines[i], regular_lines[j]) >= Tol * Tol

C22_Witness ==
    /\ pc = "optimize"
    /\ Len(Strokes) = 3
    /\ Len(regular_lines) = 2
    /\ iteration = 2
    /\ MinEndpointDist2(regular_lines[1], regular_lines[2]) >= Tol * Tol

\* a polyline as given and with its vertex order reversed
Pieces(l) == {l, Reverse(l)}

\* every polyline of `in` goes to exactly one polyline of `out`: a polyline
\* of out is one polyline of in, or two distinct ones put end to end with
\* the two endpoints at the joint closer than the tolerance
Conserves(in, out) ==
    \E g \in [1..Len(in) -> 1..Len(out)] :
        \A k \in 1..Len(out) :
            LET S == {i \in 1..Len(in) : g[i] = k}
            IN  \/ \E i \in S : S = {i} /\ out[k] \in Pieces(in[i])
                \/ \E i, j \in S :
                      /\ i # j
                      /\ S = {i, j}
                      /\ \E a \in Pieces(in[i]), b \in Pieces(in[j]) :
                            /\ out[k] = a \o b
                            /\ Norm2(a[Len(a)], b[1]) < Tol * Tol

\* C23: every scan of the joiner conserves the stroke vertices: each stroke
\* entering the scan is, forward or reversed, a contiguous run of exactly
\* one stroke leaving it, no vertex is added, dropped or duplicated, and
\* the endpoints that triggered a merge are adjacent in the merged stroke.
C23_ScanConservesVertices ==
    [][IsScanStep =>
          /\ Conserves(regular_lines, regular_lines')
          /\ VertexCount(regular_lines') = VertexCount(regular_lines)]_vars

C23_Witness ==
    /\ pc = "join_loop"
    /\ iteration = 1
    /\ joined
    /\ Len(Strokes) = 3
    /\ Len(regular_lines) = 2
    /\ regular_lines[1] = Strokes[1] \o Reverse(Strokes[2])
    /\ regular_lines[2] = Strokes[3]

\* the points p and q are closer than the join tolerance
Close(p, q) == Norm2(p, q) < Tol * Tol

\* some endpoint of a is closer than the tolerance to some endpoint of b
HasPairing(a, b) == MinEndpointDist2(a, b) < Tol * Tol

\* the merge by the first pairing within tolerance, in the order
\* end->start, end->end, start->start, start->end
FirstPairing(a, b) ==
    IF Close(a[Len(a)], b[1]) THEN a \o b
    ELSE IF Close(a[Len(a)], b[Len(b)]) THEN a \o Reverse(b)
    ELSE IF Close(a[1], b[1]) THEN Reverse(a) \o b
    ELSE b \o a

\* what the scan makes of polyline i of rl when the polylines of `free` are
\* the other unconsumed ones
MergedOrKept(rl, i, free) ==
    LET P == {j \in free : HasPairing(rl[i], rl[j])}
    IN  IF P = {} THEN rl[i] ELSE FirstPairing(rl[i], rl[LeastOf(P)])

\* C24: in every scan the first stroke merges with its lowest-indexed
\* partner by the first pairing within tolerance in the fixed order, and so
\* does the lowest-indexed stroke still unconsumed after it.
C24_PairingOrder ==
    [][(IsScanStep /\ Len(regular_lines) >= 1) =>
          LET rl == regular_lines
              n == Len(rl)
              P1 == {j \in 2..n : HasPairing(rl[1], rl[j])}
              used == IF P1 = {} THEN {1} ELSE {1, LeastOf(P1)}
              rest == (1..n) \ used
          IN  /\ regular_lines'[1] = MergedOrKept(rl, 1, 2..n)
              /\ rest # {} =>
                    regular_lines'[2] =
                        MergedOrKept(rl, LeastOf(rest), rest \ {LeastOf(rest)})]_vars

C24_Witness ==
    /\ pc = "join_loop"
    /\ iteration = 1
    /\ Tol = 1
    /\ Len(Strokes) = 3
    /\ Strokes[2] = Strokes[1]
    /\ Strokes[3] = Strokes[1]
    /\ regular_lines = <<Strokes[1] \o Reverse(Strokes[2]), Strokes[3]>>

\* the squared distance from pos to the nearer endpoint of line
NearerDist2(line, pos) == Min(Norm2(line[1], pos), Norm2(line[Len(line)], pos))

\* the greedy order: from pos, the polyline of rem whose nearer endpoint is
\* nearest (the lowest index on a tie), entered at that endpoint (at its
\* start on a tie), then the same from its other endpoint
RECURSIVE GreedyFrom(_, _, _)
GreedyFrom(ls, rem, pos) ==
    IF rem = {} THEN <<>>
    ELSE LET best == LeastOf({NearerDist2(ls[k], pos) : k \in rem})
             idx == LeastOf({k \in rem : NearerDist2(ls[k], pos) = best})
             line == IF Norm2(ls[idx][1], pos) = best THEN ls[idx]
                     ELSE Reverse(ls[idx])
         IN  <<line>> \o GreedyFrom(ls, rem \ {idx}, line[Len(line)])

MarginCorner == <<cfg.margin * den, cfg.margin * den>>

\* C25: for every non-empty input, a single polyline included, what
\* optimize_path returns is the greedy order from the margin corner: each
\* polyline is the remaining one with the nearest endpoint, entered at that
\* endpoint, ties going to the lowest index and to the start endpoint.
C25_GreedyNearest ==
    (pc = "generate" /\ path_arg # <<>>) =>
        lines = GreedyFrom(path_arg, 1..Len(path_arg), MarginCorner)

\* the same for inputs of two polylines or more
GreedyForTwoOrMore ==
    (pc = "generate" /\ Len(path_arg) >= 2) =>
        lines = GreedyFrom(path_arg, 1..Len(path_arg), MarginCorner)

\* the segment from the least to the greatest pixel of the region in row y
\* (k = 2, along x) or in column y (k = 1, along y)
Extent(k, y) ==
    LET along == {p[3 - k] : p \in {q \in RegionMask : q[k] = y}}
    IN  IF k = 2 THEN << <<LeastOf(along), y>>, <<GreatestOf(along), y>> >>
        ELSE << <<y, LeastOf(along)>>, <<y, GreatestOf(along)>> >>

\* hatch_lines holds exactly one segment for each row (k = 2) or column
\* (k = 1) that has pixels of the region, spanning its extent
OnePerLine(k) ==
    LET used == {p[k] : p \in RegionMask}
    IN  /\ Len(hatch_lines) = Cardinality(used)
        /\ \A y \in used :
              \E n \in 1..Len(hatch_lines) : hatch_lines[n] = Extent(k, y)

\* C26: for a region whose bounding box is thin-horizontal (height < 8 and
\* width / height > 4) generate_hatch_lines returns exactly one horizontal
\* segment for every pixel row holding pixels of the region, from the
\* leftmost to the rightmost of them, and nothing else; for a thin-vertical
\* region, one vertical segment for every such column.
C26_ThinShapes ==
    pc = "hatch_done" =>
        LET box == BoundingRect(hatch_region.fill)
            w == box[3]
            h == box[4]
        IN  /\ (h < 8 /\ w > 4 * h) => OnePerLine(2)
            /\ (w < 8 /\ h > 4 * w) => OnePerLine(1)

C26_Witness ==
    /\ pc = "hatch_done"
    /\ cfg.hatch_angle = 45
    /\ img_shape = <<3, 10>>
    /\ hatch_region.fill = RowAt(2..5, 1) \cup RowAt(0..8, 2)
    /\ hatch_lines = << << <<2, 1>>, <<5, 1>> >>, << <<0, 2>>, <<8, 2>> >> >>

\* the vector from p to q is parallel to the hatch direction theta
Parallel(p, q) ==
    (q[1] - p[1]) * SinDeg(cfg.hatch_angle)
        - (q[2] - p[2]) * CosDeg(cfg.hatch_angle) = 0

\* the same up to the rounding of both endpoints to whole pixels, which
\* moves each of them by at most half a pixel in either coordinate
ParallelRounded(p, q) ==
    Abs((q[1] - p[1]) * SinDeg(cfg.hatch_angle)
            - (q[2] - p[2]) * CosDeg(cfg.hatch_angle))
        <= Abs(SinDeg(cfg.hatch_angle)) + Abs(CosDeg(cfg.hatch_angle))

\* the line that was sampled last is a line at angle theta
SampledLineAtTheta == Parallel(line_start, line_end)

\* the segments emitted so far are parallel to theta up to rounding
EmittedAtTheta ==
    \A n \in 1..Len(hatch_lines) :
        ParallelRounded(hatch_lines[n][1], hatch_lines[n][2])

\* C27: in the general case every line that is sampled, for a regular
\* offset and for a corner line alike, is the unclamped line at angle theta,
\* and every emitted segment is parallel to theta up to the rounding of its
\* endpoints.
C27_UnclampedLines ==
    (/\ pc \in {"hatch_offsets", "hatch_corners", "hatch_done"}
     /\ ~IsThinHorizontal(BoundingRect(hatch_region.fill))
     /\ ~IsThinVertical(BoundingRect(hatch_region.fill))) =>
        SampledLineAtTheta /\ EmittedAtTheta

\* the same for the regular offsets only
RegularLinesAtTheta ==
    pc = "hatch_offsets" => SampledLineAtTheta /\ EmittedAtTheta


-----------------------------------------------------------------------------
(* The two hatching passes of detect_lines *)

\* the points of the lines tagged solid, in order
SolidPoints(tagged) ==
    LET s == SelectSeq(tagged, LAMBDA l : l.type = "solid")
    IN  [k \in 1..Len(s) |-> s[k].points]

\* a complete pass: the hatch segments of every region after the first k,
\* region by region, at angle a
RECURSIVE PassLines(_, _)
PassLines(k, a) ==
    IF k >= Len(area_regions) THEN <<>>
    ELSE GenerateHatchLines(area_regions[k + 1], img_shape, a,
                            cfg.hatch_spacing_pixels)
         \o PassLines(k + 1, a)

\* the regions whose boundary is drawn as an outline
Outlined ==
    {k \in 1..Len(area_regions) : Cardinality(area_regions[k].fill) > 1}

\* what detect_lines has returned starts with the pass at angle a, followed
\* by the pass at a + 90 when cross is set, and only outlines follow
ReturnedPasses(a, cross) ==
    LET expected == PassLines(0, a)
                    \o (IF cross THEN PassLines(0, a + 90) ELSE <<>>)
        solid == SolidPoints(detected)
    IN  /\ Len(solid) = Len(expected) + Cardinality(Outlined)
        /\ SubSeq(solid, 1, Len(expected)) = expected

\* C28: with crosshatch enabled detect_lines returns, tagged solid, the
\* hatch segments of a complete pass at the configured angle theta followed
\* by those of a complete pass at theta + 90, and the configured angle is
\* theta again when it returns; with crosshatch disabled only the pass at
\* theta is returned and the angle never changes.
C28_CrosshatchPasses ==
    \A a \in DetectAngles :
        (cfg.hatch_angle = a /\ cfg.fill_solid_areas) =>
            /\ [](pc = "detect_returned" =>
                     /\ cfg.hatch_angle = a
                     /\ ReturnedPasses(a, cfg.crosshatch))
            /\ [](~cfg.crosshatch => cfg.hatch_angle = a)

\* detect_lines has returned two different passes over two regions
C28_Witness ==
    /\ pc = "detect_returned"
    /\ cfg.crosshatch
    /\ Len(area_regions) = 2
    /\ pass1_count > 0
    /\ Len(found_lines) > pass1_count + Cardinality(Outlined)
    /\ SubSeq(found_lines, 1, pass1_count)
          # SubSeq(found_lines, pass1_count + 1,
                   Len(found_lines) - Cardinality(Outlined))

-----------------------------------------------------------------------------
(* The mask handed to the skeletonizer *)

\* the pixels of the regions' fills: inside a boundary, outside its holes
RegionFills ==
    UNION {area_regions[k].fill \ area_regions[k].holes :
              k \in 1..Len(area_regions)}

\* C30: when fill is enabled, the mask handed to the skeletonizer holds
\* every foreground pixel that is not in a region's fill (boundary interior
\* minus holes), a foreground pixel inside a hole included, and only the
\* pixels covered by a region's fill are removed.
C30_MaskKeepsStrokes ==
    (pc = "thinning" /\ cfg.fill_solid_areas) =>
        /\ binary_for_lines \subseteq binary_img
        /\ \A p \in binary_img \ RegionFills : p \in binary_for_lines

\* what the mask holds instead: the foreground outside every region's
\* boundary, holes or not
MaskOutsideBoundaries ==
    (pc = "thinning" /\ cfg.fill_solid_areas) =>
        binary_for_lines =
            binary_img \ UNION {area_regions[k].fill :
                                   k \in 1..Len(area_regions)}

-----------------------------------------------------------------------------
(* The order of the stages of convert *)

\* scale_to_a4 has transformed the polylines
MapDone == scale # <<0, 1>>

\* join_nearby_endpoints has been called / has returned
JoinCalled == join_arg # <<>>
JoinDone == JoinCalled /\ pc \notin {"join", "join_loop"}

\* the run is in optimize_path or past it
Sequencing == pc \in {"opt_loop", "generate", "generated"} \/ path_arg # <<>>

\* the program has been written
Emitted == gcode # <<>>

\* C29 as stated: the polylines are joined and length-filtered before the
\* sheet transform is applied to them, and sequencing and emission happen
\* only after both.
C29_JoinBeforeMap ==
    /\ MapDone => JoinDone
    /\ Sequencing \/ Emitted => JoinDone /\ MapDone

\* C29 amended: the detected polylines are first transformed to the sheet
\* and then joined and length-filtered, in sheet coordinates; sequencing and
\* emission happen only after both, emission after sequencing.
C29_MapBeforeJoin ==
    /\ JoinCalled => MapDone /\ den = 2 * scale[2]
    /\ pc = "scale" => ~JoinCalled /\ lines = detected
    /\ Sequencing \/ Emitted => JoinDone /\ MapDone
    /\ Emitted => pc \in {"generated", "done"}

\* a run that went through every stage and wrote a program
C29_Witness ==
    /\ pc = "generated"
    /\ MapDone /\ JoinDone /\ Emitted
    /\ Len(join_arg) = 2

=============================================================================
